---- MODULE Spec2Model ----
(***************************************************************************)
(* Betylitics: the fetch layer (safe_get), the batch loops built on it     *)
(* (fetch_fbref_stats, update_fbref_players_data) and the table parser     *)
(* (parse_table), as state machines translated from the Python sources.    *)
(***************************************************************************)
EXTENDS Integers, Sequences, FiniteSets, TLC

\* ------------------------------------------------------------------ bounds
MaxRetries == 3        \* largest retry cap explored when safe_get is called directly
MaxUrls == 2           \* longest URL list handed to fetch_fbref_stats
MaxPlayers == 2        \* most player rows in the JSON file of the enrichment pass
MaxCols == 2           \* most cells in a header row handed to parse_table
MaxRows == 2           \* most body rows of a table handed to parse_table
MaxExtraTables == 2    \* most extra tables handed to merge_keeper_stats
MaxSlug == 2           \* most parts of a team id or of a team name in a team URL
MaxScoreLen == 4       \* most characters of a score string handed to parse_score
MaxHistoryRows == 2    \* most body rows of the games_history_all table
MaxKnownNames == 2     \* most names in the list handed to get_closest_team_name
MaxMatches == 2        \* most rows of the H2H history handed to the aggregation
MaxWindow == 2         \* most matches of a team in the form and streak window
MaxViewRows == 7       \* most rows of the H2H history the view pills work on

\* ------------------------------------------------------- program constants
DefaultRetryAfter == 5 \* int(response.headers.get("Retry-After", 5))
DefaultRetries == 3    \* def safe_get(url, retries=3, initial_delay=5)
LegacyRetries == 5     \* fbref_players_data.py: def safe_get(url, retries=5, ...)
DefaultInitialDelay == 5
TenYearsDays == 3650   \* timedelta(days=10*365)

VARIABLES
    \* ---- safe_get (one call in progress)
    module,         \* the source file whose safe_get is running
    retries,        \* parameter
    initial_delay,  \* parameter
    attempt,        \* loop variable, 1..retries
    delay,          \* local: current backoff delay
    sg_pc,          \* "idle" | "request" | "returned" | "raised"
    history,        \* the HTTP outcomes answered so far, one per request issued
    sleeps,         \* the time.sleep(...) calls made between attempts, in order
    post_sleep,     \* the randomized sleeps made after a successful fetch
    result,         \* what the call handed to its caller
    url,            \* parameter: the request target
    requested,      \* every target session.get / requests.get was called with
    \* ---- fetch_fbref_stats (one batch run)
    batch_module,   \* the source file whose fetch_fbref_stats is running
    urls,           \* parameter: the team URLs
    index,          \* number of URLs the for loop has finished
    b_pc,           \* "idle" | "loop" | "page" | "rows" | "match" | "done"
    data,           \* process_url's return value for the current URL
    row_i,          \* number of match-log rows of the current dataset handled
    aggregated_events, \* match pages whose events were merged for the current dataset
    datasets,       \* the output list
    output_file,    \* the contents json.dump wrote, one entry per write
    outcomes,       \* how the page fetch of each URL handled so far ended
    \* ---- update_fbref_players_data (one enrichment pass)
    players_module, \* the source file whose update_fbref_players_data is running
    file,           \* the player rows of the JSON file on disk
    pdata,          \* the rows of `data`, in dataset / table / row order
    p_pc,           \* "idle" | "start" | "loop" | "fetch" | "done" | "crashed"
    p_i,            \* number of rows the loops have finished
    player_outcomes,\* how each row handled so far went
    file_reads,     \* number of read_json calls
    file_writes,    \* number of write_json calls
    \* ---- parse_table (one call)
    parse_module,   \* the source file whose parse_table is running
    thead,          \* the header rows of the table, each a sequence of cells
    tbody,          \* the body rows read so far, each a sequence of cells
    header_sub,     \* local: retained header texts
    indices_to_keep,\* local: retained column indices (counted from 1 here)
    sub_tip,        \* local: header text -> tooltip lines
    rows_data,      \* local: the row dicts built so far
    row_src,        \* for each entry of rows_data, the position in tbody of its row
    t_pc,           \* "idle" | "header" | "rows" | "done"
    \* ---- merge_keeper_stats (one call)
    standard_tables,\* parameter, changed in place and returned
    extra_tables,   \* parameter
    standard_before,\* standard_tables as it was when the call started
    m_i,            \* number of extra tables the outer loop has finished
    m_pc,           \* "idle" | "loop" | "done"
    \* ---- extract_team_id_and_name (one call)
    team_shape,     \* which URL shape the argument was built in
    team_id,        \* the id the argument was built from
    team_name,      \* the name the argument was built from
    team_url,       \* parameter `url`
    identity,       \* the (team_id, team_name) pair returned
    i_pc,           \* "idle" | "call" | "done"
    \* ---- build_h2h_url and its two callers
    caller,         \* "fetch_h2h_data" | "parse_table_html"
    home_url,       \* the home team URL (<<>>: the row cell has no link)
    away_url,       \* the away team URL (<<>>: the row cell has no link)
    h2h_url,        \* what build_h2h_url returned
    h2h_result,     \* fetch_h2h_data's return value / the row of parse_table_html
    h_pc,           \* "idle" | "start" | "built" | "page" | "done" | "raised"
    \* ---- parse_score (one call)
    score_str,      \* parameter, a sequence of characters
    score,          \* the pair returned
    s_pc,           \* "idle" | "call" | "done" | "raised"
    \* ---- parse_games_history_all (one call)
    header_cols,    \* local: the header texts
    ten_years_ago,  \* local: how many days before now the computed date lies
    history_body,   \* the body rows read so far, each a sequence of cells
    history_rows,   \* local rows_data: the row dicts built so far
    g_pc,           \* "idle" | "rows" | "done"
    \* ---- get_closest_team_name (one call)
    names_module,   \* the source file whose get_closest_team_name is running
    abbrev,         \* parameter, a sequence of characters
    team_names,     \* parameter, a list of names
    closest,        \* the name returned
    n_pc,           \* "idle" | "call" | "done"
    \* ---- the H2H aggregation of head_to_head_section (one rendering)
    agg_module,     \* the source file whose head_to_head_section is running
    selection,      \* the match count pill: "All" | "Last 6" | "Last 10"
    matches,        \* the rows aggregated
    home_team_name, \* the scorebox home team, the reference team
    away_team_name, \* the scorebox away team
    a_i,            \* the row the loop is at
    home_win, draw, away_win, home_goal, away_goal, btts, over15, over25,
    rates,          \* the rates and averages rendered, as <<count, divisor>>
    a_pc,           \* "idle" | "select" | "loop" | "done" | "raised"
    \* ---- the streaks of display_team_summary (one team)
    columns,        \* df_filtered.columns, of "Resultat", "BM" and "BE"
    df_filtered,    \* the rows of the window, the most recent first
    streaks,        \* the value of every streak_* local
    streaks_data,   \* the streaks kept for the table
    k_pc,           \* "idle" | "call" | "done" | "raised"
    \* ---- extract_match_teams, is_home_match, is_away_match (one match)
    teams_module,   \* the source file whose functions are running
    report_url,     \* match.get("Rapport de match", ""), a sequence of characters
    scorebox_home,  \* parameter
    scorebox_away,  \* parameter
    best_split,     \* what extract_match_teams returned
    is_home,        \* what is_home_match returned
    is_away,        \* what is_away_match returned
    called,         \* the functions that returned
    \* ---- the pills of head_to_head_section (one rendering)
    view_module,    \* the source file whose head_to_head_section is running
    view_selection, \* `selection`, the match count pill
    view_selection2,\* `selection2`, the pill "All" | "Home" | "Away"
    view_rows,      \* games_history_all rows, the most recent first
    view_matches,   \* `matches`, then the list aggregated and shown
    v_pc            \* "idle" | "count" | "side" | "done"

fetchVars == <<module, retries, initial_delay, attempt, delay, sg_pc, history,
               sleeps, post_sleep, result, url, requested>>

batchVars == <<batch_module, urls, index, b_pc, data, row_i, aggregated_events,
               datasets, output_file, outcomes>>

playersVars == <<players_module, file, pdata, p_pc, p_i, player_outcomes,
                 file_reads, file_writes>>

parseVars == <<parse_module, thead, tbody, header_sub, indices_to_keep, sub_tip,
               rows_data, row_src, t_pc>>

mergeVars == <<standard_tables, extra_tables, standard_before, m_i, m_pc>>

\* The fetch layer, the batch loops and the parser; the pure helpers of the
\* scraping and of the views.
coreVars == <<fetchVars, batchVars, playersVars, parseVars>>
identityVars == <<team_shape, team_id, team_name, team_url, identity, i_pc>>
h2hVars == <<caller, home_url, away_url, h2h_url, h2h_result, h_pc>>
scoreVars == <<score_str, score, s_pc>>
historyVars == <<header_cols, ten_years_ago, history_body, history_rows, g_pc>>
namesVars == <<names_module, abbrev, team_names, closest, n_pc>>
tallyVars == <<home_win, draw, away_win, home_goal, away_goal, btts, over15, over25>>
aggVars == <<agg_module, selection, matches, home_team_name, away_team_name, a_i,
             tallyVars, rates, a_pc>>
helperVars == <<mergeVars, identityVars, h2hVars, scoreVars, historyVars, namesVars,
                aggVars>>

streakVars == <<columns, df_filtered, streaks, streaks_data, k_pc>>
teamsVars == <<teams_module, report_url, scorebox_home, scorebox_away, best_split,
               is_home, is_away, called>>
viewVars == <<view_module, view_selection, view_selection2, view_rows, view_matches,
              v_pc>>
moreVars == <<streakVars, teamsVars, viewVars>>

vars == <<coreVars, helperVars, moreVars>>

\* What a step of safe_get, of the batch, of the enrichment pass and of
\* parse_table leave alone.
aroundFetch == <<batchVars, playersVars, parseVars, helperVars, moreVars>>
aroundBatch == <<playersVars, parseVars, helperVars, moreVars>>
aroundPlayers == <<batchVars, parseVars, helperVars, moreVars>>
aroundParse == <<fetchVars, batchVars, playersVars, helperVars, moreVars>>
aroundMerge ==
    <<coreVars, identityVars, h2hVars, scoreVars, historyVars, namesVars, aggVars,
      moreVars>>
aroundIdentity ==
    <<coreVars, mergeVars, h2hVars, scoreVars, historyVars, namesVars, aggVars,
      moreVars>>
aroundH2H == <<batchVars, playersVars, parseVars, mergeVars, identityVars, scoreVars,
               historyVars, namesVars, aggVars, moreVars>>
aroundScore ==
    <<coreVars, mergeVars, identityVars, h2hVars, historyVars, namesVars, aggVars,
      moreVars>>
aroundHistory ==
    <<coreVars, mergeVars, identityVars, h2hVars, scoreVars, namesVars, aggVars,
      moreVars>>
aroundNames ==
    <<coreVars, mergeVars, identityVars, h2hVars, scoreVars, historyVars, aggVars,
      moreVars>>
aroundStreak == <<coreVars, helperVars, teamsVars, viewVars>>
aroundTeams == <<coreVars, helperVars, streakVars, viewVars>>
aroundView == <<coreVars, helperVars, streakVars, teamsVars>>
aroundAgg ==
    <<coreVars, mergeVars, identityVars, h2hVars, scoreVars, historyVars, namesVars,
      moreVars>>

\* ------------------------------------------------------------ safe_get
\* The four safe_get definitions of the repository.
TeamModule == "get_team_data"
H2HModule == "get_h2h_data"
PlayersModule == "get_players_data"
LegacyModule == "fbref_players_data"
SafeGetModules == {TeamModule, H2HModule, PlayersModule, LegacyModule}

\* Initial delays tried for a direct call (5 is the default of every definition).
InitialDelays == {2, DefaultInitialDelay}

\* The Retry-After header of a 429 response: absent, an integer number of
\* seconds, or a value int() rejects (an HTTP date).
NoHeader == [header |-> "absent", secs |-> 0]
BadHeader == [header |-> "http-date", secs |-> 0]
SecondsHeaders == {[header |-> "seconds", secs |-> s] : s \in {1, 7}}
RetryAfterHeaders == {NoHeader, BadHeader} \cup SecondsHeaders

\* Exceptions of an attempt: raise_for_status() on a non-429 error status,
\* or session.get() failing in transport.
Errors == {"HTTPError", "ConnectionError"}

\* get_team_data, get_h2h_data and get_players_data read Retry-After;
\* fbref_players_data never looks at the header.
ReadsRetryAfter(m) == m # LegacyModule

\* Headers a 429 answer can carry as far as module m can tell them apart.
HeadersSeenBy(m) == IF ReadsRetryAfter(m) THEN RetryAfterHeaders ELSE {NoHeader}

\* random.uniform(lo, hi) after a successful fetch, at its two ends:
\* get_h2h_data sleeps uniform(0, 2), get_players_data uniform(2, 5),
\* the other two return at once.
PostSuccessSleeps(m) ==
    CASE m = H2HModule -> {0, 2}
      [] m = PlayersModule -> {2, 5}
      [] OTHER -> {}

Pending == [kind |-> "pending", exc |-> ""]
Response == [kind |-> "response", exc |-> ""]
ReturnedNone == [kind |-> "None", exc |-> ""]
Raised(e) == [kind |-> "raise", exc |-> e]

\* The wait of a 429 answer that is retried: Retry-After (default 5) where the
\* header is read, the current backoff delay in fbref_players_data.
Wait429(m, hdr, d) ==
    IF ReadsRetryAfter(m)
    THEN (IF hdr.header = "seconds" THEN hdr.secs ELSE DefaultRetryAfter)
    ELSE d

\* delay after a 429 answer: only fbref_players_data doubles it.
DelayAfter429(m, d) == IF ReadsRetryAfter(m) THEN d ELSE d * 2

\* (mutation of DelayAfterError: the backoff delay is never doubled)
DelayAfterErrorFlat(d) == d

\* delay *= 2 in the except branch
DelayAfterError(d) == d * 2

\* (mutation of LoopExhausted: a 429 answer is retried once past the cap)
LoopExhaustedLate(a, r) == a = r + 1

\* `for attempt in range(1, retries + 1)` ran out: falls to `return None`.
LoopExhausted(a, r) == a = r

\* `if attempt == retries: raise e`
LastAttempt(a, r) == a = r

\* the except branch: raise on the last attempt, else sleep(delay), delay *= 2
ExceptBranch(e, out) ==
    /\ history' = Append(history, out)
    /\ requested' = requested \cup {url}
    /\ IF LastAttempt(attempt, retries)
       THEN /\ sg_pc' = "raised"
            /\ result' = Raised(e)
            /\ UNCHANGED <<attempt, delay, sleeps>>
       ELSE /\ sleeps' = Append(sleeps, delay)
            /\ delay' = DelayAfterError(delay)
            /\ attempt' = attempt + 1
            /\ UNCHANGED <<sg_pc, result>>
    /\ UNCHANGED <<module, retries, initial_delay, post_sleep, url>>

\* session.get answered 429.
Answer429 ==
    /\ sg_pc = "request"
    /\ UNCHANGED aroundFetch
    /\ \E hdr \in HeadersSeenBy(module) :
         LET out == [kind |-> "429", hdr |-> hdr, exc |-> ""] IN
         IF ReadsRetryAfter(module) /\ hdr.header = "http-date"
         THEN \* int(...) raises ValueError inside the try block
              ExceptBranch("ValueError", out)
         ELSE /\ history' = Append(history, out)
              /\ requested' = requested \cup {url}
              /\ sleeps' = Append(sleeps, Wait429(module, hdr, delay))
              /\ delay' = DelayAfter429(module, delay)
              /\ IF LoopExhausted(attempt, retries)
                 THEN /\ sg_pc' = "returned"
                      /\ result' = ReturnedNone
                      /\ UNCHANGED attempt
                 ELSE /\ attempt' = attempt + 1
                      /\ UNCHANGED <<sg_pc, result>>
              /\ UNCHANGED <<module, retries, initial_delay, post_sleep, url>>

\* session.get raised, or raise_for_status() raised on a non-429 error status.
AnswerError ==
    /\ sg_pc = "request"
    /\ UNCHANGED aroundFetch
    /\ \E e \in Errors : ExceptBranch(e, [kind |-> "error", hdr |-> NoHeader, exc |-> e])

\* A successful answer: the randomized pause where there is one, then return.
AnswerOK ==
    /\ sg_pc = "request"
    /\ UNCHANGED aroundFetch
    /\ history' = Append(history, [kind |-> "ok", hdr |-> NoHeader, exc |-> ""])
    /\ IF PostSuccessSleeps(module) = {}
       THEN UNCHANGED post_sleep
       ELSE \E s \in PostSuccessSleeps(module) : post_sleep' = Append(post_sleep, s)
    /\ sg_pc' = "returned"
    /\ result' = Response
    /\ requested' = requested \cup {url}
    /\ UNCHANGED <<module, retries, initial_delay, attempt, delay, sleeps, url>>

\* Entry of safe_get(u, retries=r, initial_delay=d) in module m.
SafeGetEntry(m, u, r, d) ==
    /\ module' = m
    /\ url' = u
    /\ retries' = r
    /\ initial_delay' = d
    /\ attempt' = 1
    /\ delay' = d
    /\ sg_pc' = "request"
    /\ history' = <<>>
    /\ sleeps' = <<>>
    /\ result' = Pending
    /\ UNCHANGED <<post_sleep, requested>>

\* safe_get is not running: its locals hold nothing.
SafeGetIdle ==
    /\ module = TeamModule
    /\ url = ""
    /\ retries = DefaultRetries
    /\ initial_delay = DefaultInitialDelay
    /\ attempt = 1
    /\ delay = DefaultInitialDelay
    /\ sg_pc = "idle"
    /\ history = <<>>
    /\ sleeps = <<>>
    /\ post_sleep = <<>>
    /\ result = Pending
    /\ requested = {}

\* process_url returned None
NoData == [kind |-> "None"]

\* --------------------------------------------------- direct calls of safe_get
BatchIdle ==
    /\ batch_module = TeamModule
    /\ urls = <<>>
    /\ index = 0
    /\ b_pc = "idle"
    /\ data = NoData
    /\ row_i = 0
    /\ aggregated_events = {}
    /\ datasets = <<>>
    /\ output_file = <<>>
    /\ outcomes = <<>>

PlayersIdle ==
    /\ players_module = PlayersModule
    /\ file = <<>>
    /\ pdata = <<>>
    /\ p_pc = "idle"
    /\ p_i = 0
    /\ player_outcomes = <<>>
    /\ file_reads = 0
    /\ file_writes = 0

ParseIdle ==
    /\ parse_module = TeamModule
    /\ thead = <<>>
    /\ tbody = <<>>
    /\ header_sub = <<>>
    /\ indices_to_keep = <<>>
    /\ sub_tip = <<>>
    /\ rows_data = <<>>
    /\ row_src = <<>>
    /\ t_pc = "idle"

MergeIdle ==
    /\ standard_tables = <<>>
    /\ extra_tables = <<>>
    /\ standard_before = <<>>
    /\ m_i = 0
    /\ m_pc = "idle"

CoreIdle == SafeGetIdle /\ BatchIdle /\ PlayersIdle /\ ParseIdle
IdentityIdle ==
    /\ team_shape = "other"
    /\ team_id = <<>>
    /\ team_name = <<>>
    /\ team_url = <<>>
    /\ identity = [id |-> <<>>, name |-> <<>>]
    /\ i_pc = "idle"

H2HIdle ==
    /\ caller = "fetch_h2h_data"
    /\ home_url = <<>>
    /\ away_url = <<>>
    /\ h2h_url = <<>>
    /\ h2h_result = [kind |-> "none", h2h_url |-> <<>>]
    /\ h_pc = "idle"

ScoreIdle ==
    /\ score_str = <<>>
    /\ score = [ok |-> FALSE, home |-> 0, away |-> 0]
    /\ s_pc = "idle"

HistoryIdle ==
    /\ header_cols = <<>>
    /\ ten_years_ago = 0
    /\ history_body = <<>>
    /\ history_rows = <<>>
    /\ g_pc = "idle"

NamesIdle ==
    /\ names_module = "views/h2h"
    /\ abbrev = <<>>
    /\ team_names = <<>>
    /\ closest = <<>>
    /\ n_pc = "idle"

\* No rate computed: every rate and average without a value.
NoRates ==
    [x \in {"home_win_pct", "draw_pct", "away_win_pct", "btts_pct", "over15_pct",
            "over25_pct", "home_goal_avg", "away_goal_avg"} |-> <<0, 0>>]

NoTally ==
    /\ home_win = 0 /\ draw = 0 /\ away_win = 0
    /\ home_goal = 0 /\ away_goal = 0
    /\ btts = 0 /\ over15 = 0 /\ over25 = 0

AggIdle ==
    /\ agg_module = "views/h2h"
    /\ selection = "All"
    /\ matches = <<>>
    /\ home_team_name = <<>>
    /\ away_team_name = <<>>
    /\ a_i = 1
    /\ NoTally
    /\ rates = NoRates
    /\ a_pc = "idle"

\* The streak_* locals of display_team_summary, all 0.
StreakNames ==
    {"Consecutive wins", "Consecutive wins or draw", "Consecutive draws",
     "Consecutive defeats or draw", "Consecutive defeats", "No win", "No draw",
     "No defeat", "1 goal scored or more", "1 goal conceded or more",
     "No goal scored", "No goal conceded", "GF+GA over 2.5", "GF+GA under 2.5"}
NoStreaks == [x \in StreakNames |-> 0]

StreakIdle ==
    /\ columns = {}
    /\ df_filtered = <<>>
    /\ streaks = NoStreaks
    /\ streaks_data = {}
    /\ k_pc = "idle"

\* (None, None)
NoSplit == [found |-> FALSE, home |-> <<>>, away |-> <<>>]

TeamsIdle ==
    /\ teams_module = "views/h2h"
    /\ report_url = <<>>
    /\ scorebox_home = <<>>
    /\ scorebox_away = <<>>
    /\ best_split = NoSplit
    /\ is_home = FALSE
    /\ is_away = FALSE
    /\ called = {"extract_match_teams", "is_home_match", "is_away_match"}

ViewIdle ==
    /\ view_module = "views/h2h"
    /\ view_selection = "All"
    /\ view_selection2 = "All"
    /\ view_rows = <<>>
    /\ view_matches = <<>>
    /\ v_pc = "idle"

MoreIdle == StreakIdle /\ TeamsIdle /\ ViewIdle

HelpersIdle ==
    /\ MergeIdle /\ IdentityIdle /\ H2HIdle /\ ScoreIdle /\ HistoryIdle /\ NamesIdle
    /\ AggIdle
    /\ MoreIdle

FetchInit ==
    /\ HelpersIdle
    /\ BatchIdle
    /\ PlayersIdle
    /\ ParseIdle
    /\ url = "https://fbref.com/fr/equipes/e2d8892c/Statistiques-Paris-Saint-Germain"
    /\ requested = {}
    /\ module \in SafeGetModules
    /\ retries \in 1..MaxRetries
    /\ initial_delay \in InitialDelays
    /\ attempt = 1
    /\ delay = initial_delay
    /\ sg_pc = "request"
    /\ history = <<>>
    /\ sleeps = <<>>
    /\ post_sleep = <<>>
    /\ result = Pending

FetchNext == Answer429 \/ AnswerError \/ AnswerOK

SpecFetch == FetchInit /\ [][FetchNext]_vars

\* ------------------------------------------------------- fetch_fbref_stats
ClubModule == "fbref_club_data"
BatchModules == {TeamModule, ClubModule}

\* Team URLs in the two shapes the site uses (the first two are the test_urls
\* of get_team_data.py).
UrlPool ==
    << "https://fbref.com/fr/equipes/d01a653b/historique/Stats-et-historique-de-Argentinos-Juniors",
       "https://fbref.com/fr/equipes/e2d8892c/Statistiques-Paris-Saint-Germain",
       "https://fbref.com/fr/equipes/5725cc7b/historique/Stats-et-historique-de-Marseille",
       "https://fbref.com/fr/equipes/d53c0b06/Statistiques-Lyon" >>

UrlLists ==
    {SubSeq(UrlPool, 1, n) : n \in 0..(IF MaxUrls < Len(UrlPool) THEN MaxUrls ELSE Len(UrlPool))}

\* url.replace("/historique/Stats-et-historique-de-", "/Statistiques-")
transform_url(u) ==
    CASE u = UrlPool[1] -> "https://fbref.com/fr/equipes/d01a653b/Statistiques-Argentinos-Juniors"
      [] u = UrlPool[3] -> "https://fbref.com/fr/equipes/5725cc7b/Statistiques-Marseille"
      [] OTHER -> u

\* The "Match URL" values of the rows of a page's matchlogs_for table ("" for
\* a row without a match-report anchor); NoMatchLogs is a page without the table.
MatchUrl1 == "/fr/matchs/0a1b2c3d/Argentinos-Juniors-Boca-Juniors"
MatchUrl2 == "/fr/matchs/4e5f6a7b/Paris-Saint-Germain-Marseille"
MatchLogs == {<<>>, <<"">>, <<MatchUrl1>>, <<MatchUrl1, MatchUrl2>>}
NoMatchLogs == [present |-> FALSE, rows |-> <<>>, events |-> {}]
Venues(rows) == [present |-> TRUE, rows |-> rows, events |-> {}]
PageVenues == {NoMatchLogs} \cup {Venues(r) : r \in MatchLogs}

\* process_match: safe_get("https://fbref.com{match_url}") -- the string is
\* not an f-string, so every match row asks for the same literal target.
MatchTarget(match_url) == "https://fbref.com{match_url}"

Dataset(i, u, v) == [kind |-> "dataset", url_index |-> i, team |-> u, venues |-> v]

\* (mutation of AppendData: the newest dataset is put first)
AppendDataFront(ds, d) == IF d = NoData THEN ds ELSE <<d>> \o ds

\* (mutation of AppendData: a failed URL discards the datasets gathered so far)
AppendDataClears(ds, d) == IF d = NoData THEN <<>> ELSE Append(ds, d)

\* `if data: datasets.append(data)`: a None result is not appended.
AppendData(ds, d) == IF d = NoData THEN ds ELSE Append(ds, d)

BatchUnchangedFetch ==
    UNCHANGED <<module, retries, initial_delay, attempt, delay, sg_pc, history,
                sleeps, post_sleep, result, url, requested>>

\* get_team_data.process_url up to its safe_get(transformed) call.
ProcessUrlCall ==
    /\ UNCHANGED aroundBatch
    /\ b_pc = "loop"
    /\ batch_module = TeamModule
    /\ index < Len(urls)
    /\ SafeGetEntry(TeamModule, transform_url(urls[index + 1]), DefaultRetries,
                    DefaultInitialDelay)
    /\ b_pc' = "page"
    /\ UNCHANGED <<batch_module, urls, index, data, row_i, aggregated_events,
                   datasets, output_file, outcomes>>

\* safe_get came back to process_url: a raised error, or None (on which
\* response.raise_for_status() raises AttributeError), makes process_url
\* return None and the URL is skipped; a response is parsed into a dataset.
ProcessUrlReturn ==
    /\ UNCHANGED aroundBatch
    /\ b_pc = "page"
    /\ sg_pc \in {"returned", "raised"}
    /\ IF result = Response
       THEN /\ \E v \in PageVenues : data' = Dataset(index, url, v)
            /\ b_pc' = "rows"
            /\ UNCHANGED <<index, datasets>>
       ELSE /\ data' = NoData
            /\ datasets' = AppendData(datasets, NoData)
            /\ index' = index + 1
            /\ b_pc' = "loop"
    /\ row_i' = 0
    /\ aggregated_events' = {}
    /\ sg_pc' = "idle"
    /\ history' = <<>>
    /\ sleeps' = <<>>
    /\ result' = Pending
    /\ UNCHANGED <<module, retries, initial_delay, attempt, delay, post_sleep, url,
                   requested, batch_module, urls, output_file>>
    /\ outcomes' = Append(outcomes, result.kind)

\* `for row in match_rows`: a row without a Match URL is passed over.
MatchRowSkip ==
    /\ UNCHANGED aroundBatch
    /\ b_pc = "rows"
    /\ row_i < Len(data.venues.rows)
    /\ data.venues.rows[row_i + 1] = ""
    /\ row_i' = row_i + 1
    /\ BatchUnchangedFetch
    /\ UNCHANGED <<batch_module, urls, index, b_pc, data, aggregated_events,
                   datasets, output_file, outcomes>>

\* process_match(match_url) up to its safe_get call.
ProcessMatchCall ==
    /\ UNCHANGED aroundBatch
    /\ b_pc = "rows"
    /\ row_i < Len(data.venues.rows)
    /\ data.venues.rows[row_i + 1] # ""
    /\ SafeGetEntry(TeamModule, MatchTarget(data.venues.rows[row_i + 1]),
                    DefaultRetries, DefaultInitialDelay)
    /\ b_pc' = "match"
    /\ UNCHANGED <<batch_module, urls, index, data, row_i, aggregated_events,
                   datasets, output_file, outcomes>>

\* safe_get came back to process_match: the page's events and team stats are
\* merged; any failure yields {"events": {}, "team_stats": {}}.
ProcessMatchReturn ==
    /\ UNCHANGED aroundBatch
    /\ b_pc = "match"
    /\ sg_pc \in {"returned", "raised"}
    /\ aggregated_events' = IF result = Response
                            THEN aggregated_events \cup {url}
                            ELSE aggregated_events
    /\ row_i' = row_i + 1
    /\ b_pc' = "rows"
    /\ sg_pc' = "idle"
    /\ history' = <<>>
    /\ sleeps' = <<>>
    /\ result' = Pending
    /\ UNCHANGED <<module, retries, initial_delay, attempt, delay, post_sleep, url,
                   requested, batch_module, urls, index, data, datasets, output_file,
                   outcomes>>

\* All match rows handled: the aggregates go into venues (`if venues:`) and
\* the dataset is appended.
DatasetAppend ==
    /\ UNCHANGED aroundBatch
    /\ b_pc = "rows"
    /\ row_i = Len(data.venues.rows)
    /\ LET v == IF data.venues.present
                THEN [data.venues EXCEPT !.events = aggregated_events]
                ELSE data.venues
       IN datasets' = AppendData(datasets, [data EXCEPT !.venues = v])
    /\ index' = index + 1
    /\ b_pc' = "loop"
    /\ data' = NoData
    /\ row_i' = 0
    /\ aggregated_events' = {}
    /\ BatchUnchangedFetch
    /\ UNCHANGED <<batch_module, urls, output_file, outcomes>>

\* fbref_club_data.process_url: extract_team_name(url) and the page are both
\* fetched with requests.get, without retry; a failing page returns None.
ClubProcessUrl ==
    /\ UNCHANGED aroundBatch
    /\ b_pc = "loop"
    /\ batch_module = ClubModule
    /\ index < Len(urls)
    /\ requested' = requested \cup {urls[index + 1], transform_url(urls[index + 1])}
    /\ \E name_ok \in BOOLEAN, page_ok \in BOOLEAN, v \in PageVenues :
         LET team == IF name_ok THEN urls[index + 1] ELSE "Unknown Team"
             d == IF page_ok THEN Dataset(index, team, v) ELSE NoData
         IN /\ datasets' = AppendData(datasets, d)
            /\ outcomes' = Append(outcomes, IF page_ok THEN "response" ELSE "raise")
    /\ index' = index + 1
    /\ UNCHANGED <<module, retries, initial_delay, attempt, delay, sg_pc, history,
                   sleeps, post_sleep, result, url>>
    /\ UNCHANGED <<batch_module, urls, b_pc, data, row_i, aggregated_events,
                   output_file>>

\* After the loop: json.dump({"datasets": datasets}) into output_file.
WriteOutput ==
    /\ UNCHANGED aroundBatch
    /\ b_pc = "loop"
    /\ index = Len(urls)
    /\ output_file' = Append(output_file, datasets)
    /\ b_pc' = "done"
    /\ BatchUnchangedFetch
    /\ UNCHANGED <<batch_module, urls, index, data, row_i, aggregated_events, datasets,
                   outcomes>>

BatchInit ==
    /\ HelpersIdle
    /\ SafeGetIdle
    /\ PlayersIdle
    /\ ParseIdle
    /\ batch_module \in BatchModules
    /\ urls \in UrlLists
    /\ index = 0
    /\ b_pc = "loop"
    /\ data = NoData
    /\ row_i = 0
    /\ aggregated_events = {}
    /\ datasets = <<>>
    /\ output_file = <<>>
    /\ outcomes = <<>>

BatchNext ==
    \/ ProcessUrlCall
    \/ Answer429
    \/ AnswerError
    \/ AnswerOK
    \/ ProcessUrlReturn
    \/ MatchRowSkip
    \/ ProcessMatchCall
    \/ ProcessMatchReturn
    \/ DatasetAppend
    \/ ClubProcessUrl
    \/ WriteOutput

SpecBatch == BatchInit /\ [][BatchNext]_vars

\* ----------------------------------------------- update_fbref_players_data
BASE_URL == "https://fbref.com"
RelHref == "/fr/joueurs/abc/nom"
AbsHref == "https://fbref.com/fr/joueurs/xyz/autre"

\* `u if u.startswith("http") else urllib.parse.urljoin(BASE_URL, u)`
ResolveUrl(u) ==
    CASE u = RelHref -> "https://fbref.com/fr/joueurs/abc/nom"
      [] OTHER -> u

EnrichModules == {PlayersModule, LegacyModule}

\* retries default of the module's safe_get
RetriesOf(m) == IF m = LegacyModule THEN LegacyRetries ELSE DefaultRetries

NoInfo == [kind |-> "absent", page |-> ""]       \* the row has no additional_info key
EmptyInfo == [kind |-> "empty", page |-> ""]     \* {}
PageInfo(u) == [kind |-> "info", page |-> u]     \* the dict built from page u

PlayerRow(i, u) == [Joueur |-> i, JoueurURL |-> u, additional_info |-> NoInfo]

\* The JSON files: up to MaxPlayers rows, each with an empty, a relative or an
\* absolute "Joueur URL".
PlayerFiles ==
    UNION {{[i \in 1..n |-> PlayerRow(i, f[i])] : f \in [1..n -> {"", RelHref, AbsHref}]}
           : n \in 0..MaxPlayers}

PlayersUnchangedFetch ==
    UNCHANGED <<module, retries, initial_delay, attempt, delay, sg_pc, history,
                sleeps, post_sleep, result, url, requested>>

\* data = read_json(json_file)
ReadPlayers ==
    /\ UNCHANGED aroundPlayers
    /\ p_pc = "start"
    /\ pdata' = file
    /\ file_reads' = file_reads + 1
    /\ p_pc' = "loop"
    /\ PlayersUnchangedFetch
    /\ UNCHANGED <<players_module, file, p_i, player_outcomes, file_writes>>

\* `if player_url:` is false: the row is left as it is.
PlayerRowSkip ==
    /\ UNCHANGED aroundPlayers
    /\ p_pc = "loop"
    /\ p_i < Len(pdata)
    /\ pdata[p_i + 1].JoueurURL = ""
    /\ p_i' = p_i + 1
    /\ player_outcomes' = Append(player_outcomes, "no url")
    /\ PlayersUnchangedFetch
    /\ UNCHANGED <<players_module, file, pdata, p_pc, file_reads, file_writes>>

\* get_player_additional_info(player_url) up to its safe_get call.
PlayerFetchCall ==
    /\ UNCHANGED aroundPlayers
    /\ p_pc = "loop"
    /\ p_i < Len(pdata)
    /\ pdata[p_i + 1].JoueurURL # ""
    /\ SafeGetEntry(players_module, ResolveUrl(pdata[p_i + 1].JoueurURL),
                    RetriesOf(players_module), DefaultInitialDelay)
    /\ p_pc' = "fetch"
    /\ UNCHANGED <<players_module, file, pdata, p_i, player_outcomes, file_reads,
                   file_writes>>

\* What get_player_additional_info does with safe_get's outcome: a raised
\* error is caught and gives {}; a response gives the page's info ({} when the
\* page has no div#info); None is not caught by the try block, and
\* `response.content` then raises AttributeError out of the whole pass.
InfoFrom(res, u, has_info) ==
    CASE res.kind = "raise" -> EmptyInfo
      [] res.kind = "response" -> IF has_info THEN PageInfo(u) ELSE EmptyInfo
      [] OTHER -> NoInfo

PassSurvives(res) == res.kind # "None"

PlayerFetchReturn ==
    /\ UNCHANGED aroundPlayers
    /\ p_pc = "fetch"
    /\ sg_pc \in {"returned", "raised"}
    /\ player_outcomes' = Append(player_outcomes, result.kind)
    /\ IF PassSurvives(result)
       THEN /\ \E has_info \in BOOLEAN :
                 pdata' = [pdata EXCEPT ![p_i + 1].additional_info =
                                           InfoFrom(result, url, has_info)]
            /\ p_i' = p_i + 1
            /\ p_pc' = "loop"
       ELSE /\ p_pc' = "crashed"
            /\ UNCHANGED <<pdata, p_i>>
    /\ sg_pc' = "idle"
    /\ history' = <<>>
    /\ sleeps' = <<>>
    /\ result' = Pending
    /\ UNCHANGED <<module, retries, initial_delay, attempt, delay, post_sleep, url,
                   requested, players_module, file, file_reads, file_writes>>

\* (mutation of WritePlayers: the file is written from inside the loop)
WritePlayersEarly ==
    /\ UNCHANGED aroundPlayers
    /\ p_pc = "loop"
    /\ file' = pdata
    /\ file_writes' = file_writes + 1
    /\ p_pc' = "done"
    /\ PlayersUnchangedFetch
    /\ UNCHANGED <<players_module, pdata, p_i, player_outcomes, file_reads>>

\* write_json(data, json_file) after the loops
WritePlayers ==
    /\ UNCHANGED aroundPlayers
    /\ p_pc = "loop"
    /\ p_i = Len(pdata)
    /\ file' = pdata
    /\ file_writes' = file_writes + 1
    /\ p_pc' = "done"
    /\ PlayersUnchangedFetch
    /\ UNCHANGED <<players_module, pdata, p_i, player_outcomes, file_reads>>

PlayersInit ==
    /\ HelpersIdle
    /\ SafeGetIdle
    /\ BatchIdle
    /\ ParseIdle
    /\ players_module \in EnrichModules
    /\ file \in PlayerFiles
    /\ pdata = <<>>
    /\ p_pc = "start"
    /\ p_i = 0
    /\ player_outcomes = <<>>
    /\ file_reads = 0
    /\ file_writes = 0

PlayersNext ==
    \/ ReadPlayers
    \/ PlayerRowSkip
    \/ PlayerFetchCall
    \/ Answer429
    \/ AnswerError
    \/ AnswerOK
    \/ PlayerFetchReturn
    \/ WritePlayers

SpecPlayers == PlayersInit /\ [][PlayersNext]_vars

\* ------------------------------------------------------------- parse_table
\* parse_table of get_team_data.py, of get_players_data.py (the one of
\* fbref_players_data.py is the same code) and of fbref_club_data.py.
ParseModules == {TeamModule, PlayersModule, ClubModule}

\* An OrderedDict: a sequence of key/value entries with distinct keys.
HasKey(d, key) == \E i \in 1..Len(d) : d[i].k = key
DictGet(d, key) == d[CHOOSE i \in 1..Len(d) : d[i].k = key].v
Keys(d) == {d[i].k : i \in 1..Len(d)}
KeyPos(d, key) == CHOOSE i \in 1..Len(d) : d[i].k = key

\* d[key] = value: a present key keeps its place, a new one goes last.
DictSet(d, key, value) ==
    IF HasKey(d, key)
    THEN [i \in 1..Len(d) |-> IF d[i].k = key THEN [k |-> key, v |-> value] ELSE d[i]]
    ELSE Append(d, [k |-> key, v |-> value])

\* Header cells: the text and the data-tip attribute (<<>> when absent).
TipMatchs == "<strong>Matchs joues</strong><br>Matchs joues par le joueur"
TipMJ == "<strong>Matchs joues</strong><br><em>MJ</em>"
HeaderCells ==
    { [text |-> "Matchs", tip |-> <<TipMatchs>>],
      [text |-> "MATCHS", tip |-> <<>>],
      [text |-> "Joueur", tip |-> <<>>],
      [text |-> "MJ", tip |-> <<TipMJ>>],
      [text |-> "Rapport de match", tip |-> <<>>] }

\* The grouping row above the header row of a two-row thead.
GroupRow == << [text |-> "Temps de jeu", tip |-> <<>>], [text |-> "Matchs", tip |-> <<>>] >>

HeaderRows == UNION {[1..n -> HeaderCells] : n \in 0..MaxCols}

\* No header row; one header row (of at most one cell, like a one-column
\* listing); or a grouping row above the header row, the shape of the
\* statistics tables.
Theads ==
    {<<>>} \cup {<<h>> : h \in {r \in HeaderRows : Len(r) <= 1}}
           \cup {<<GroupRow, h>> : h \in HeaderRows}

\* Body cells: the stripped text and the href of the cell's first anchor ("" when
\* there is no anchor, or none with an href). The cells of a row are all zeros
\* without anchor, or numbers with a relative href, or words with an absolute one,
\* and their texts tell the columns apart.
RowKinds == {"zero", "num", "word"}
Numbers == <<"1", "2", "3", "4", "5", "6">>
Words == <<"a", "b", "c", "d", "e", "f">>
Cell(kind, i) ==
    CASE kind = "zero" -> [text |-> "0", href |-> ""]
      [] kind = "num" -> [text |-> Numbers[i], href |-> RelHref]
      [] OTHER -> [text |-> Words[i], href |-> AbsHref]
BodyRows == {[i \in 1..n |-> Cell(kind, i)] : kind \in RowKinds, n \in 0..(MaxCols + 1)}

\* text.lower()
Lower(text) ==
    CASE text = "Matchs" -> "matchs"
      [] text = "MATCHS" -> "matchs"
      [] text = "Joueur" -> "joueur"
      [] text = "MJ" -> "mj"
      [] text = "Rapport de match" -> "rapport de match"
      [] text = "Temps de jeu" -> "temps de jeu"
      [] OTHER -> text

\* `if text.lower() == "matchs": continue`
IsMatchs(text) == Lower(text) = "matchs"

\* <br> -> newline, <strong> -> **, other tags removed, non-empty stripped lines
FormatTip(tip) ==
    CASE tip = TipMatchs -> <<"**Matchs joues**", "Matchs joues par le joueur">>
      [] tip = TipMJ -> <<"**Matchs joues**", "MJ">>
      [] OTHER -> <<tip>>

\* header_rows[1] when there are two header rows or more, header_rows[0] when
\* there is one, [] otherwise
sub_cells(th) == IF Len(th) >= 2 THEN th[2] ELSE IF Len(th) = 1 THEN th[1] ELSE <<>>

\* The header loop, from cell i on: the indices appended to indices_to_keep.
RECURSIVE KeptIndices(_, _)
KeptIndices(cells, i) ==
    IF i > Len(cells) THEN <<>>
    ELSE (IF IsMatchs(cells[i].text) THEN <<>> ELSE <<i>>) \o KeptIndices(cells, i + 1)

\* The header loop's sub_tip, from the k-th kept cell on.
RECURSIVE TipsFrom(_, _, _, _)
TipsFrom(cells, idx, k, acc) ==
    IF k > Len(idx) THEN acc
    ELSE LET th == cells[idx[k]] IN
         TipsFrom(cells, idx, k + 1,
                  IF th.tip = <<>> THEN acc ELSE DictSet(acc, th.text, FormatTip(th.tip[1])))

\* [cells[i] for i in indices_to_keep if i < len(cells)]
filtered_cells(cells, idx) ==
    LET inside == SelectSeq(idx, LAMBDA i : i <= Len(cells))
    IN [k \in 1..Len(inside) |-> cells[inside[k]]]

\* (mutation of RowFits: the cell-count check is gone)
RowFitsAlways(fc, hs) == TRUE

\* `if len(filtered_cells) != len(header_sub): continue`
RowFits(fc, hs) == Len(fc) = Len(hs)

\* (mutation of PlayerUrl: the href is stored as written in every module)
PlayerUrlRaw(m, cell) == cell.href

\* The value stored under "Joueur URL": get_players_data completes a href that
\* does not start with "http" with BASE_URL; get_team_data and fbref_club_data
\* store the href as it is.
PlayerUrl(m, cell) ==
    IF m = PlayersModule /\ cell.href # "" THEN ResolveUrl(cell.href) ELSE cell.href

\* One turn of `for header, cell in zip(header_sub, filtered_cells)`.
RowStep(m, row, header, cell) ==
    LET joueur == IF Lower(header) = "joueur"
                  THEN DictSet(DictSet(row, "Joueur URL", PlayerUrl(m, cell)),
                               header, cell.text)
                  ELSE row
    IN IF m = TeamModule
       THEN \* `if joueur ... ; if rapport de match ... else: row_dict[header] = text`
            IF Lower(header) = "rapport de match"
            THEN DictSet(DictSet(joueur, "Match URL", cell.href), header, cell.text)
            ELSE DictSet(joueur, header, cell.text)
       ELSE IF Lower(header) = "joueur" THEN joueur ELSE DictSet(row, header, cell.text)

RECURSIVE BuildRow(_, _, _, _, _)
BuildRow(m, hs, fc, k, row) ==
    IF k > Len(hs) \/ k > Len(fc) THEN row
    ELSE BuildRow(m, hs, fc, k + 1, RowStep(m, row, hs[k], fc[k]))

\* int(text) == 0, False when int() raises
IsIntZero(text) == text = "0"

\* (mutation of MJDrops: the "MJ" filter is gone)
MJDropsNone(m, row) == FALSE

\* get_team_data only: a row whose "MJ" value is the integer 0 is skipped.
MJDrops(m, row) == m = TeamModule /\ HasKey(row, "MJ") /\ IsIntZero(DictGet(row, "MJ"))

\* thead: header_sub, indices_to_keep and sub_tip.
ParseHeader ==
    /\ UNCHANGED aroundParse
    /\ t_pc = "header"
    /\ \E th \in Theads :
         LET idx == KeptIndices(sub_cells(th), 1) IN
         /\ thead' = th
         /\ indices_to_keep' = idx
         /\ header_sub' = [k \in 1..Len(idx) |-> sub_cells(th)[idx[k]].text]
         /\ sub_tip' = TipsFrom(sub_cells(th), idx, 1, <<>>)
    /\ t_pc' = "rows"
    /\ UNCHANGED <<parse_module, tbody, rows_data, row_src>>

\* One turn of `for row in tbody.find_all("tr")`.
ParseBodyRow ==
    /\ UNCHANGED aroundParse
    /\ t_pc = "rows"
    /\ Len(tbody) < MaxRows
    /\ \E cells \in BodyRows :
         LET fc == filtered_cells(cells, indices_to_keep)
             row == BuildRow(parse_module, header_sub, fc, 1, <<>>)
             kept == /\ cells # <<>>
                     /\ RowFits(fc, header_sub)
                     /\ ~MJDrops(parse_module, row)
         IN /\ tbody' = Append(tbody, cells)
            /\ rows_data' = IF kept THEN Append(rows_data, row) ELSE rows_data
            /\ row_src' = IF kept THEN Append(row_src, Len(tbody) + 1) ELSE row_src
    /\ UNCHANGED <<parse_module, thead, header_sub, indices_to_keep, sub_tip, t_pc>>

\* return {"header": {"data_tip": sub_tip}, "rows": rows_data}
ParseReturn ==
    /\ UNCHANGED aroundParse
    /\ t_pc = "rows"
    /\ t_pc' = "done"
    /\ UNCHANGED <<parse_module, thead, tbody, header_sub, indices_to_keep, sub_tip,
                   rows_data, row_src>>

ParseInit ==
    /\ HelpersIdle
    /\ SafeGetIdle
    /\ BatchIdle
    /\ PlayersIdle
    /\ parse_module \in ParseModules
    /\ thead = <<>>
    /\ tbody = <<>>
    /\ header_sub = <<>>
    /\ indices_to_keep = <<>>
    /\ sub_tip = <<>>
    /\ rows_data = <<>>
    /\ row_src = <<>>
    /\ t_pc = "header"

ParseNext == ParseHeader \/ ParseBodyRow \/ ParseReturn

SpecParse == ParseInit /\ [][ParseNext]_vars

\* ------------------------------------------------------ merge_keeper_stats
\* merge_keeper_stats of get_team_data.py; the one of fbref_club_data.py is
\* the same code line for line.

\* dict.get(key): None when the key is absent.
NoneValue == "<None>"
RowGet(row, key) == IF HasKey(row, key) THEN DictGet(row, key) ELSE NoneValue

Entry(key, value) == [k |-> key, v |-> value]

\* The players named in the tables ("" stands for a row without "Joueur").
MergePlayers == {"", "A", "B"}

\* A row of a standard table: its player, and "MJ" when the table has it.
StdRow(j, mj) ==
    (IF j # "" THEN <<Entry("Joueur", j)>> ELSE <<>>)
    \o (IF mj THEN <<Entry("MJ", "1")>> ELSE <<>>)
StdRows == {StdRow(j, mj) : j \in MergePlayers, mj \in BOOLEAN}
StdHeaders == {<<>>, <<Entry("MJ", <<"Matchs joues">>)>>}

\* A parsed table: parse_table's {"header": {"data_tip": ...}, "rows": ...}.
Table(tips, rows) == [data_tip |-> tips, rows |-> rows]

StdTables ==
    {Table(h, r) : h \in StdHeaders,
                   r \in {<<>>} \cup {<<a>> : a \in StdRows}
                                \cup {<<a, b>> : a \in StdRows, b \in StdRows}}

\* standard_tables: one table, or two one-row tables.
StandardLists ==
    {<<t>> : t \in StdTables}
    \cup {<<Table(<<>>, <<a>>), Table(<<>>, <<b>>)>> : a \in StdRows, b \in StdRows}

\* The cell text of row r of extra table i: every extra cell differs from
\* every other one and from the standard cells.
ExtraTexts == << <<"11", "12">>, <<"21", "22">>, <<"31", "32">>, <<"41", "42">> >>

\* A row of an extra (keeper) table: its player, "MJ" and "Arrets".
ExtraRow(j, i, r) ==
    (IF j # "" THEN <<Entry("Joueur", j)>> ELSE <<>>)
    \o <<Entry("MJ", ExtraTexts[i][r]), Entry("Arrets", ExtraTexts[i][r])>>

ExtraTips(i) ==
    <<Entry("MJ", <<"MJ", ExtraTexts[i][1]>>), Entry("Arrets", <<"Arrets", ExtraTexts[i][1]>>)>>

\* The players of the rows of an extra table, and whether its header has tips.
ExtraShapes ==
    [players : {<<>>, <<"A">>, <<"B">>, <<"">>, <<"A", "A">>, <<"A", "B">>},
     tipped : BOOLEAN]

ExtraTable(i, shape) ==
    Table(IF shape.tipped THEN ExtraTips(i) ELSE <<>>,
          [r \in 1..Len(shape.players) |-> ExtraRow(shape.players[r], i, r)])

ExtraLists ==
    UNION {{[i \in 1..n |-> ExtraTable(i, f[i])] : f \in [1..n -> ExtraShapes]}
           : n \in 0..MaxExtraTables}

\* (mutation of CopyNewKeys: every key of the source is written)
RECURSIVE CopyAllKeys(_, _, _)
CopyAllKeys(target, source, n) ==
    IF n > Len(source) THEN target
    ELSE CopyAllKeys(DictSet(target, source[n].k, source[n].v), source, n + 1)

\* `for key, value in source.items(): if key not in target: target[key] = value`
RECURSIVE CopyNewKeys(_, _, _)
CopyNewKeys(target, source, n) ==
    IF n > Len(source) THEN target
    ELSE CopyNewKeys(IF HasKey(target, source[n].k) THEN target
                     ELSE DictSet(target, source[n].k, source[n].v),
                     source, n + 1)

\* The header update, which sits inside `if std_row.get("Joueur") == extra_player`.
HeaderAfterMatch(std_header, extra_header) == CopyNewKeys(std_header, extra_header, 1)

\* `for std_row in std_table["rows"]`, from row s on, for one extra_row.
RECURSIVE MergeExtraRow(_, _, _, _)
MergeExtraRow(std_table, extra_header, extra_row, s) ==
    IF s > Len(std_table.rows) THEN std_table
    ELSE IF RowGet(std_table.rows[s], "Joueur") = RowGet(extra_row, "Joueur")
         THEN MergeExtraRow(
                 Table(HeaderAfterMatch(std_table.data_tip, extra_header),
                       [std_table.rows EXCEPT ![s] = CopyNewKeys(@, extra_row, 1)]),
                 extra_header, extra_row, s + 1)
         ELSE MergeExtraRow(std_table, extra_header, extra_row, s + 1)

\* `for extra_row in extra_rows`, from row e on.
RECURSIVE MergeExtraRows(_, _, _)
MergeExtraRows(std_table, extra_data, e) ==
    IF e > Len(extra_data.rows) THEN std_table
    ELSE MergeExtraRows(
            MergeExtraRow(std_table, extra_data.data_tip, extra_data.rows[e], 1),
            extra_data, e + 1)

\* One turn of `for extra_data in extra_tables`: every standard table in turn.
MergeExtra ==
    /\ m_pc = "loop"
    /\ m_i < Len(extra_tables)
    /\ standard_tables' =
          [j \in 1..Len(standard_tables) |->
              MergeExtraRows(standard_tables[j], extra_tables[m_i + 1], 1)]
    /\ m_i' = m_i + 1
    /\ UNCHANGED <<extra_tables, standard_before, m_pc>>
    /\ UNCHANGED aroundMerge

\* return standard_tables
MergeReturn ==
    /\ m_pc = "loop"
    /\ m_i = Len(extra_tables)
    /\ m_pc' = "done"
    /\ UNCHANGED <<standard_tables, extra_tables, standard_before, m_i>>
    /\ UNCHANGED aroundMerge

MergeInit ==
    /\ CoreIdle
    /\ IdentityIdle
    /\ H2HIdle
    /\ ScoreIdle
    /\ HistoryIdle
    /\ NamesIdle
    /\ AggIdle
    /\ MoreIdle
    /\ standard_tables \in StandardLists
    /\ extra_tables \in ExtraLists
    /\ standard_before = standard_tables
    /\ m_i = 0
    /\ m_pc = "loop"

MergeNext == MergeExtra \/ MergeReturn

SpecMerge == MergeInit /\ [][MergeNext]_vars

\* ------------------------------------------------ extract_team_id_and_name
\* extract_team_id_and_name of get_h2h_data.py; the one of get_matches.py is
\* the same code.  A URL is the sequence of its parts: the separators and
\* keywords the two patterns look for, and the pieces of text between them.
\* No part holds a line break, so `.` matches every part.
Site == "https://fbref.com"
TeamsPrefix == "/fr/equipes/"
Slash == "/"
StatsWord == "Statistiques-"
HistoryWord == "historique"
HistoryStatsWord == "Stats-et-historique-de-"

\* The parts `[^/]` does not match.
HasSlash(part) == part \in {Site, TeamsPrefix, Slash, "/fr/joueurs/"}

\* Pieces of a team id or name: plain text, and the patterns' own keywords.
SlugParts == {"e2d8892c", "Le-Havre", StatsWord, HistoryWord, HistoryStatsWord}
Slugs == UNION {[1..n -> SlugParts] : n \in 1..MaxSlug}

\* The two URL shapes the docstring lists.
CanonicalUrl(id, name) == <<Site, TeamsPrefix>> \o id \o <<Slash, StatsWord>> \o name
HistoricalUrl(id, name) ==
    <<Site, TeamsPrefix>> \o id \o <<Slash, HistoryWord, Slash, HistoryStatsWord>> \o name

\* URLs of neither shape: no team path, a team path that stops early, a
\* player path, an empty id, an empty name.
OtherUrl(id, name) ==
    { <<Site>>,
      <<Site, TeamsPrefix>> \o id,
      <<Site, TeamsPrefix>> \o id \o <<Slash>>,
      <<Site, TeamsPrefix>> \o id \o <<Slash>> \o name,
      <<Site, TeamsPrefix>> \o id \o <<Slash, HistoryWord, Slash>> \o name,
      <<Site, TeamsPrefix>> \o id \o <<Slash, StatsWord>>,
      <<Site, TeamsPrefix, Slash, StatsWord>> \o name,
      <<Site, "/fr/joueurs/">> \o id \o <<Slash>> \o name }

\* (None, None)
NoIdentity == [id |-> <<>>, name |-> <<>>]

\* The end of the longest run of parts without "/" that starts at q (q - 1
\* when there is none): the greedy `[^/]+`, which the next "/" cannot shorten.
RECURSIVE RunEnd(_, _)
RunEnd(text, q) ==
    IF q > Len(text) \/ HasSlash(text[q]) THEN q - 1 ELSE RunEnd(text, q + 1)

\* Whether `tail` is in text right after position e, with something behind it.
TailAt(text, e, tail) ==
    /\ e + Len(tail) < Len(text)
    /\ \A n \in 1..Len(tail) : text[e + n] = tail[n]

\* The tails of the two patterns, in the order of the `patterns` list:
\* r"/fr/equipes/([^/]+)/Statistiques-(.+)$" and
\* r"/fr/equipes/([^/]+)/historique/Stats-et-historique-de-(.+)$"
PatternTails == << <<Slash, StatsWord>>, <<Slash, HistoryWord, Slash, HistoryStatsWord>> >>

\* (mutation of Patterns: the historical pattern is forgotten)
CanonicalOnly == <<PatternTails[1]>>

Patterns == PatternTails

\* Whether pattern `tail` matches the text from position p on.
MatchesAt(text, p, tail) ==
    /\ text[p] = TeamsPrefix
    /\ RunEnd(text, p + 1) > p
    /\ TailAt(text, RunEnd(text, p + 1), tail)

\* re.search(pattern, url): the groups of the leftmost match, or None.
Search(tail, text) ==
    LET starts == {p \in 1..Len(text) : MatchesAt(text, p, tail)} IN
    IF starts = {} THEN NoIdentity
    ELSE LET p == CHOOSE x \in starts : \A y \in starts : x <= y
             e == RunEnd(text, p + 1)
         IN [id |-> SubSeq(text, p + 1, e),
             name |-> SubSeq(text, e + Len(tail) + 1, Len(text))]

\* `for pattern in patterns: ... if match: return ...`, then `return None, None`
RECURSIVE FirstMatch(_, _, _)
FirstMatch(pats, text, n) ==
    IF n > Len(pats) THEN NoIdentity
    ELSE IF Search(pats[n], text) # NoIdentity THEN Search(pats[n], text)
         ELSE FirstMatch(pats, text, n + 1)

extract_team_id_and_name(text) == FirstMatch(Patterns, text, 1)

ExtractIdentity ==
    /\ i_pc = "call"
    /\ identity' = extract_team_id_and_name(team_url)
    /\ i_pc' = "done"
    /\ UNCHANGED <<team_shape, team_id, team_name, team_url>>
    /\ UNCHANGED aroundIdentity

IdentityInit ==
    /\ CoreIdle
    /\ MergeIdle
    /\ H2HIdle
    /\ ScoreIdle
    /\ HistoryIdle
    /\ NamesIdle
    /\ AggIdle
    /\ MoreIdle
    /\ team_shape \in {"canonical", "historical", "other"}
    /\ team_id \in Slugs
    /\ team_name \in Slugs
    /\ team_url \in CASE team_shape = "canonical" -> {CanonicalUrl(team_id, team_name)}
                      [] team_shape = "historical" -> {HistoricalUrl(team_id, team_name)}
                      [] OTHER -> OtherUrl(team_id, team_name)
    /\ identity = NoIdentity
    /\ i_pc = "call"

IdentityNext == ExtractIdentity

SpecIdentity == IdentityInit /\ [][IdentityNext]_vars

\* ------------------------------------------------------------ build_h2h_url
NoUrl == <<>>
H2HBase == "https://fbref.com/fr/stathead/matchup/teams"

\* f"{base}/{home_id}/{away_id}/Historique-{home_name}-contre-{away_name}"
H2HTemplate(home, away) ==
    <<H2HBase, Slash>> \o home.id \o <<Slash>> \o away.id
    \o <<Slash, "Historique-">> \o home.name \o <<"-contre-">> \o away.name

\* (mutation of build_h2h_url: a team that is not recognised gets a default)
build_h2h_url_default(home, away) ==
    LET dflt == [id |-> <<"e2d8892c">>, name |-> <<"Le-Havre">>]
        h == extract_team_id_and_name(home)
        a == extract_team_id_and_name(away)
    IN H2HTemplate(IF h = NoIdentity THEN dflt ELSE h, IF a = NoIdentity THEN dflt ELSE a)

build_h2h_url(home, away) ==
    LET h == extract_team_id_and_name(home)
        a == extract_team_id_and_name(away)
    IN IF h.id = <<>> \/ a.id = <<>> \/ h.name = <<>> \/ a.name = <<>>
       THEN NoUrl
       ELSE H2HTemplate(h, a)

\* The team URLs the callers pass: the docstring's examples, a team page of
\* another kind, and a URL that is no team page.
TeamUrls ==
    { CanonicalUrl(<<"e2d8892c">>, <<"Paris-Saint-Germain">>),
      CanonicalUrl(<<"5c2737db">>, <<"Le-Havre">>),
      HistoricalUrl(<<"d01a653b">>, <<"Argentinos-Juniors">>),
      <<Site, TeamsPrefix, "e2d8892c", Slash, "2024-2025", Slash, "Paris-Saint-Germain">>,
      <<Site, "/fr/joueurs/", "abc", Slash, "nom">> }

H2HCallers == {"fetch_h2h_data", "parse_table_html"}

EmptyResult == [kind |-> "empty", h2h_url |-> NoUrl]
H2HData(u) == [kind |-> "data", h2h_url |-> u]
\* a row of parse_table_html: with or without the "h2h_url" field
MatchRow(u) == [kind |-> IF u = NoUrl THEN "row" ELSE "row with h2h_url", h2h_url |-> u]

H2HUnchangedFetch ==
    UNCHANGED <<module, retries, initial_delay, attempt, delay, sg_pc, history,
                sleeps, post_sleep, result, url, requested>>

\* h2h_url = build_h2h_url(home_url, away_url) in fetch_h2h_data
BuildH2HUrl ==
    /\ h_pc = "start"
    /\ caller = "fetch_h2h_data"
    /\ h2h_url' = build_h2h_url(home_url, away_url)
    /\ h_pc' = "built"
    /\ H2HUnchangedFetch
    /\ UNCHANGED <<caller, home_url, away_url, h2h_result>>
    /\ UNCHANGED aroundH2H

\* `if not h2h_url: return {}`
H2HNoUrl ==
    /\ h_pc = "built"
    /\ h2h_url = NoUrl
    /\ h2h_result' = EmptyResult
    /\ h_pc' = "done"
    /\ H2HUnchangedFetch
    /\ UNCHANGED <<caller, home_url, away_url, h2h_url>>
    /\ UNCHANGED aroundH2H

\* response = safe_get(h2h_url)
H2HCall ==
    /\ h_pc = "built"
    /\ h2h_url # NoUrl
    /\ SafeGetEntry(H2HModule, h2h_url, DefaultRetries, DefaultInitialDelay)
    /\ h_pc' = "page"
    /\ UNCHANGED <<post_sleep, requested>>
    /\ UNCHANGED <<caller, home_url, away_url, h2h_url, h2h_result>>
    /\ UNCHANGED aroundH2H

\* safe_get came back: `if not response: return {}`, else the parsed page; an
\* exception raised by safe_get is not caught here.
H2HReturn ==
    /\ h_pc = "page"
    /\ sg_pc \in {"returned", "raised"}
    /\ IF result = Response
       THEN h2h_result' = H2HData(h2h_url) /\ h_pc' = "done"
       ELSE IF result = ReturnedNone
            THEN h2h_result' = EmptyResult /\ h_pc' = "done"
            ELSE UNCHANGED h2h_result /\ h_pc' = "raised"
    /\ sg_pc' = "idle"
    /\ UNCHANGED <<module, retries, initial_delay, attempt, delay, history, sleeps,
                   post_sleep, result, url, requested>>
    /\ UNCHANGED <<caller, home_url, away_url, h2h_url>>
    /\ UNCHANGED aroundH2H

\* parse_table_html, the end of one row: with both "Domicile URL" and
\* "Extérieur URL", build_h2h_url is called and a result that is not None is
\* stored under "h2h_url".
MatchesRow ==
    /\ h_pc = "start"
    /\ caller = "parse_table_html"
    /\ h2h_url' = IF home_url # NoUrl /\ away_url # NoUrl
                  THEN build_h2h_url(home_url, away_url) ELSE NoUrl
    /\ h2h_result' = MatchRow(h2h_url')
    /\ h_pc' = "done"
    /\ H2HUnchangedFetch
    /\ UNCHANGED <<caller, home_url, away_url>>
    /\ UNCHANGED aroundH2H

H2HInit ==
    /\ SafeGetIdle
    /\ BatchIdle
    /\ PlayersIdle
    /\ ParseIdle
    /\ MergeIdle
    /\ IdentityIdle
    /\ ScoreIdle
    /\ HistoryIdle
    /\ NamesIdle
    /\ AggIdle
    /\ MoreIdle
    /\ caller \in H2HCallers
    /\ home_url \in TeamUrls \cup (IF caller = "parse_table_html" THEN {NoUrl} ELSE {})
    /\ away_url \in TeamUrls \cup (IF caller = "parse_table_html" THEN {NoUrl} ELSE {})
    /\ h2h_url = NoUrl
    /\ h2h_result = [kind |-> "none", h2h_url |-> NoUrl]
    /\ h_pc = "start"

H2HNext ==
    \/ BuildH2HUrl
    \/ H2HNoUrl
    \/ H2HCall
    \/ Answer429
    \/ AnswerError
    \/ AnswerOK
    \/ H2HReturn
    \/ MatchesRow

SpecH2H == H2HInit /\ [][H2HNext]_vars

\* -------------------------------------------------------------- parse_score
\* parse_score of views/h2h.py; the one of print_h2h.py is the same code.  A
\* score string is the sequence of its characters.
Digits == {"0", "1", "2"}
Hyphen == "-"
EnDash == "en-dash"       \* the one character U+2013
Space == " "
ScoreChars == Digits \cup {Hyphen, EnDash, Space, "(", ")", "x"}

\* The strings handed to parse_score: every short one, and the examples.
ScoreStrings ==
    UNION {[1..n -> ScoreChars] : n \in 0..MaxScoreLen}
    \cup { <<"2", EnDash, "1">>,
           <<"1", Hyphen, "1", Space, "(", "2", Hyphen, "1", ")">>,
           <<"s", "c", "o", "r", "e">> }

\* (None, None)
NoScore == [ok |-> FALSE, home |-> 0, away |-> 0]
ScorePair(h, a) == [ok |-> TRUE, home |-> h, away |-> a]

\* re.sub(r"\(.*?\)", "", text) from position n on: a "(" is removed with
\* everything up to the first ")" behind it; without one it stays.
RECURSIVE RemoveParens(_, _)
RemoveParens(text, n) ==
    IF n > Len(text) THEN <<>>
    ELSE LET closers == {j \in (n + 1)..Len(text) : text[j] = ")"} IN
         IF text[n] = "(" /\ closers # {}
         THEN RemoveParens(text, (CHOOSE j \in closers : \A l \in closers : j <= l) + 1)
         ELSE <<text[n]>> \o RemoveParens(text, n + 1)

\* (mutation of SplitChars: the en-dash is not a separator)
HyphenOnly == {Hyphen}

\* the character class of re.split: the en-dash and the hyphen
SplitChars == {Hyphen, EnDash}

\* re.split(<en-dash or hyphen>, text): the pieces between the separators.
RECURSIVE Split(_, _, _)
Split(text, n, piece) ==
    IF n > Len(text) THEN <<piece>>
    ELSE IF text[n] \in SplitChars THEN <<piece>> \o Split(text, n + 1, <<>>)
         ELSE Split(text, n + 1, Append(piece, text[n]))

\* str.strip()
RECURSIVE Strip(_)
Strip(text) ==
    IF text = <<>> THEN text
    ELSE IF Head(text) = Space THEN Strip(Tail(text))
    ELSE IF text[Len(text)] = Space THEN Strip(SubSeq(text, 1, Len(text) - 1))
    ELSE text

\* int(text): a ValueError unless the text is made of digits.
IsInt(text) == text # <<>> /\ \A n \in 1..Len(text) : text[n] \in Digits
DigitValue(c) == CASE c = "0" -> 0 [] c = "1" -> 1 [] c = "2" -> 2
RECURSIVE IntValue(_)
IntValue(text) ==
    IF text = <<>> THEN 0
    ELSE 10 * IntValue(SubSeq(text, 1, Len(text) - 1)) + DigitValue(text[Len(text)])

\* The body of the try block: the pair, or the exception it raises.
TryParseScore(text) ==
    LET parts == Split(RemoveParens(text, 1), 1, <<>>) IN
    IF ~IsInt(Strip(parts[1])) THEN [raised |-> "ValueError", pair |-> NoScore]
    ELSE IF Len(parts) < 2 THEN [raised |-> "IndexError", pair |-> NoScore]
    ELSE IF ~IsInt(Strip(parts[2])) THEN [raised |-> "ValueError", pair |-> NoScore]
    ELSE [raised |-> "", pair |-> ScorePair(IntValue(Strip(parts[1])), IntValue(Strip(parts[2])))]

\* `except Exception`: every exception of the try block is caught.
Caught(exc) == exc \in {"ValueError", "IndexError"}

\* `except Exception: return None, None`
parse_score(text) == TryParseScore(text).pair

ParseScore ==
    /\ s_pc = "call"
    /\ LET r == TryParseScore(score_str) IN
          IF r.raised = "" \/ Caught(r.raised)
          THEN score' = parse_score(score_str) /\ s_pc' = "done"
          ELSE UNCHANGED score /\ s_pc' = "raised"
    /\ UNCHANGED score_str
    /\ UNCHANGED aroundScore

ScoreInit ==
    /\ CoreIdle
    /\ MergeIdle
    /\ IdentityIdle
    /\ H2HIdle
    /\ HistoryIdle
    /\ NamesIdle
    /\ AggIdle
    /\ MoreIdle
    /\ score_str \in ScoreStrings
    /\ score = NoScore
    /\ s_pc = "call"

ScoreNext == ParseScore

SpecScore == ScoreInit /\ [][ScoreNext]_vars

\* -------------------------------------------------- parse_games_history_all
\* The header of the games_history_all table.
HistoryHeader == <<"Date", "Score", "Rapport de match">>

\* The texts of the "Date" cells, with the processing time at 2026-11-03: a
\* match of yesterday, one just inside the last 3650 days, one just outside,
\* an old one, a header row repeated in the body, and an empty cell.
DateTexts == {"2026-11-02", "2016-11-06", "2016-11-04", "2010-05-01", "Date", ""}
IsDate(text) == text \in {"2026-11-02", "2016-11-06", "2016-11-04", "2010-05-01"}
\* How many days before the processing time a date lies.
DaysAgo(text) ==
    CASE text = "2026-11-02" -> 1
      [] text = "2016-11-06" -> 3649
      [] text = "2016-11-04" -> 3651
      [] text = "2010-05-01" -> 6030

HistoryCell(text, href) == [text |-> text, href |-> href]
DateCells == {HistoryCell(t, "") : t \in DateTexts}
ScoreCells == {HistoryCell(t, "") : t \in {"2-1", ""}}
ReportCells ==
    {HistoryCell("", ""), HistoryCell("Rapport de match", ""),
     HistoryCell("Rapport de match", "/fr/matchs/abc")}

\* Body rows: with every cell, or cut short.
HistoryBodyRows ==
    {<<>>} \cup {<<a>> : a \in DateCells}
           \cup {<<a, b>> : a \in DateCells, b \in ScoreCells}
           \cup {<<a, b, c>> : a \in DateCells, b \in ScoreCells, c \in ReportCells}

\* urllib.parse.urljoin("https://fbref.com", link)
ReportUrl(link) ==
    CASE link = "/fr/matchs/abc" -> "https://fbref.com/fr/matchs/abc"
      [] OTHER -> link

\* One turn of `for i, col_name in enumerate(header_cols)`.
HistoryStep(row, col_name, cell) ==
    IF cell.text = "" THEN row
    ELSE IF Lower(col_name) = "rapport de match" /\ cell.href # ""
         THEN DictSet(row, col_name, ReportUrl(cell.href))
         ELSE DictSet(row, col_name, cell.text)

RECURSIVE HistoryRow(_, _, _, _)
HistoryRow(cols, cells, i, row) ==
    IF i > Len(cols) THEN row
    ELSE HistoryRow(cols, cells, i + 1,
                    IF i <= Len(cells) THEN HistoryStep(row, cols[i], cells[i]) ELSE row)

\* `if row_dict: rows_data.append(row_dict)`: the only test a row goes
\* through; ten_years_ago is computed and not read.
KeepsRow(row) == row # <<>>

\* One turn of `for tr in tbody.find_all("tr")`.
HistoryBodyRow ==
    /\ g_pc = "rows"
    /\ Len(history_body) < MaxHistoryRows
    /\ \E cells \in HistoryBodyRows :
          LET row == HistoryRow(header_cols, cells, 1, <<>>) IN
          /\ history_body' = Append(history_body, cells)
          /\ history_rows' = IF KeepsRow(row) THEN Append(history_rows, row)
                             ELSE history_rows
    /\ UNCHANGED <<header_cols, ten_years_ago, g_pc>>
    /\ UNCHANGED aroundHistory

\* return {"header": header_cols, "rows": rows_data}
HistoryReturn ==
    /\ g_pc = "rows"
    /\ g_pc' = "done"
    /\ UNCHANGED <<header_cols, ten_years_ago, history_body, history_rows>>
    /\ UNCHANGED aroundHistory

HistoryInit ==
    /\ CoreIdle
    /\ MergeIdle
    /\ IdentityIdle
    /\ H2HIdle
    /\ ScoreIdle
    /\ NamesIdle
    /\ AggIdle
    /\ MoreIdle
    /\ header_cols = HistoryHeader
    /\ ten_years_ago = TenYearsDays
    /\ history_body = <<>>
    /\ history_rows = <<>>
    /\ g_pc = "rows"

HistoryNext == HistoryBodyRow \/ HistoryReturn

SpecHistory == HistoryInit /\ [][HistoryNext]_vars

\* ---------------------------------------------------- get_closest_team_name
\* get_closest_team_name of views/h2h.py and of print_h2h.py.  A name is the
\* sequence of its characters; "E'" and "e'" are the letters E and e with an
\* acute accent.
ViewsH2H == "views/h2h"
PrintH2H == "print_h2h"
NamesModules == {ViewsH2H, PrintH2H}

\* The names the callers compare: the examples of the spec, names that differ
\* in case, hyphens or accents only, and a name made of a hyphen.
NamePool ==
    { <<"P", "a", "r", "i", "s", " ", "S", "a", "i", "n", "t", "-", "G", "e", "r", "m", "a", "i", "n">>,
      <<"P", "a", "r", "i", "s", " ", "S", "a", "i", "n", "t", " ", "G", "e", "r", "m", "a", "i", "n">>,
      <<"L", "e", " ", "H", "a", "v", "r", "e">>,
      <<"P", "S", "G", "-", "i", "s", "h">>,
      <<"l", "e", "-", "h", "a", "v", "r", "e">>,
      <<"E", "t", "e">>,
      <<"E'", "t", "e">>,
      <<"e'", "t", "e", "-", "b">>,
      <<"-">> }

KnownLists == UNION {[1..n -> NamePool] : n \in 0..MaxKnownNames}

\* The characters of the names, in code point order.
CharOrder == <<" ", "-", "E", "G", "H", "L", "P", "S", "a", "b", "e", "g", "h", "i", "l", "m", "n", "p", "r", "s", "t", "v", "E'", "e'">>
Rank(c) == CHOOSE n \in 1..Len(CharOrder) : CharOrder[n] = c

\* unicodedata.normalize('NFKD', name).encode('ascii', 'ignore').decode('ascii')
Unaccent(c) == CASE c = "E'" -> "E" [] c = "e'" -> "e" [] OTHER -> c

\* str.lower()
LowerChar(c) == CASE c = "E" -> "e" [] c = "G" -> "g" [] c = "H" -> "h" [] c = "L" -> "l" [] c = "P" -> "p" [] c = "S" -> "s" [] c = "E'" -> "e'" [] OTHER -> c

\* re.sub(r'[\s\-]', '', ...)
Separators == {" ", "-"}

\* normalize_team_name: only the one of views/h2h.py removes the accents.
normalize_team_name(m, name) ==
    LET ascii == IF m = ViewsH2H THEN [n \in 1..Len(name) |-> Unaccent(name[n])] ELSE name
        lower == [n \in 1..Len(ascii) |-> LowerChar(ascii[n])]
    IN SelectSeq(lower, LAMBDA c : c \notin Separators)

\* difflib.SequenceMatcher: how far a[i..] and b[j..] agree.
RECURSIVE RunLength(_, _, _, _)
RunLength(a, b, i, j) ==
    IF i > Len(a) \/ j > Len(b) \/ a[i] # b[j] THEN 0
    ELSE 1 + RunLength(a, b, i + 1, j + 1)

\* find_longest_match: the longest common block; of those the one that
\* starts earliest in a, and of those the one that starts earliest in b.
LongestMatch(a, b) ==
    LET starts == (1..Len(a)) \X (1..Len(b))
        best == CHOOSE x \in starts :
                   \A y \in starts :
                      \/ RunLength(a, b, x[1], x[2]) > RunLength(a, b, y[1], y[2])
                      \/ /\ RunLength(a, b, x[1], x[2]) = RunLength(a, b, y[1], y[2])
                         /\ \/ x[1] < y[1]
                            \/ x[1] = y[1] /\ x[2] <= y[2]
    IN [i |-> best[1], j |-> best[2], size |-> RunLength(a, b, best[1], best[2])]

\* get_matching_blocks: the number of characters in the matching blocks.
RECURSIVE Matches(_, _)
Matches(a, b) ==
    IF a = <<>> \/ b = <<>> THEN 0
    ELSE LET m == LongestMatch(a, b) IN
         IF m.size = 0 THEN 0
         ELSE m.size
              + Matches(SubSeq(a, 1, m.i - 1), SubSeq(b, 1, m.j - 1))
              + Matches(SubSeq(a, m.i + m.size, Len(a)), SubSeq(b, m.j + m.size, Len(b)))

\* ratio() >= cutoff with cutoff=0.5, where ratio() is 2.0 * matches / length
\* and 1.0 for two empty strings.
ReachesCutoff(a, b) ==
    Len(a) + Len(b) = 0 \/ 2 * (2 * Matches(a, b)) >= Len(a) + Len(b)

\* a.ratio(word) < b.ratio(word)
LowerRatio(a, b, word) ==
    LET ma == IF Len(a) + Len(word) = 0 THEN 1 ELSE 2 * Matches(a, word)
        ta == IF Len(a) + Len(word) = 0 THEN 1 ELSE Len(a) + Len(word)
        mb == IF Len(b) + Len(word) = 0 THEN 1 ELSE 2 * Matches(b, word)
        tb == IF Len(b) + Len(word) = 0 THEN 1 ELSE Len(b) + Len(word)
    IN ma * tb < mb * ta

\* a < b for two strings
RECURSIVE StringLess(_, _)
StringLess(a, b) ==
    IF b = <<>> THEN FALSE
    ELSE IF a = <<>> THEN TRUE
    ELSE IF Head(a) # Head(b) THEN Rank(Head(a)) < Rank(Head(b))
    ELSE StringLess(Tail(a), Tail(b))

\* difflib.get_close_matches(word, possibilities, n=1, cutoff=0.5): the
\* possibilities that reach the cutoff, and of them the largest (ratio, string).
CloseMatches(word, possibilities) ==
    LET close == {x \in possibilities : ReachesCutoff(x, word)} IN
    {x \in close :
        \A y \in close :
           ~LowerRatio(x, y, word) /\ (LowerRatio(y, x, word) \/ ~StringLess(x, y))}

\* `for full_name, norm in normalized_names.items(): if norm == best_match[0]`
RECURSIVE FirstNamed(_, _, _, _)
FirstNamed(m, names, best, n) ==
    IF n > Len(names) THEN <<>>
    ELSE IF normalize_team_name(m, names[n]) = best THEN names[n]
    ELSE FirstNamed(m, names, best, n + 1)

get_closest_team_name(m, name, names) ==
    LET best_match ==
           CloseMatches(normalize_team_name(m, name),
                        {normalize_team_name(m, names[n]) : n \in 1..Len(names)})
    IN IF best_match = {} THEN name
       ELSE FirstNamed(m, names, CHOOSE x \in best_match : TRUE, 1)

ClosestName ==
    /\ n_pc = "call"
    /\ closest' = get_closest_team_name(names_module, abbrev, team_names)
    /\ n_pc' = "done"
    /\ UNCHANGED <<names_module, abbrev, team_names>>
    /\ UNCHANGED aroundNames

NamesInit ==
    /\ CoreIdle
    /\ MergeIdle
    /\ IdentityIdle
    /\ H2HIdle
    /\ ScoreIdle
    /\ HistoryIdle
    /\ AggIdle
    /\ MoreIdle
    /\ names_module \in NamesModules
    /\ abbrev \in NamePool
    /\ team_names \in KnownLists
    /\ closest = <<>>
    /\ n_pc = "call"

NamesNext == ClosestName

SpecNames == NamesInit /\ [][NamesNext]_vars

\* ------------------------------------------------- the H2H aggregation
\* head_to_head_section of print_h2h.py (the view "All": lines 379-433 and the
\* averages of lines 518 and 545) and head_to_head_section with display_data
\* of views/h2h.py (lines 676-713, 350-389 and the averages of lines 527 and
\* 562).  A row of the history has its Score and its Domicile (the home side
\* of the row).
AggModules == {ViewsH2H, PrintH2H}
Selections == {"All", "Last 6", "Last 10"}

LeHavre == <<"L", "e", " ", "H", "a", "v", "r", "e">>
Ete == <<"E", "t", "e">>

\* The scores of the rows: none, not played, and played ones.
MatchScores ==
    { <<>>, <<"x">>, <<"2", Hyphen, "1">>, <<"0", Hyphen, "2">>, <<"1", Hyphen, "1">> }

\* The home sides of the rows, as the history table abbreviates them.
MatchHomes == { <<"l", "e", "-", "h", "a", "v", "r", "e">>, Ete }

MatchRows == [Score : MatchScores, Domicile : MatchHomes]
MatchLists == UNION {[1..n -> MatchRows] : n \in 0..MaxMatches}

\* list[:n]
Take(list, n) == SubSeq(list, 1, IF Len(list) < n THEN Len(list) ELSE n)

\* [m for m in matches if m.get("Score", "").strip() != ""]
WithScore(list) == SelectSeq(list, LAMBDA m : Strip(m.Score) # <<>>)

\* The rows the pills leave: print_h2h.py cuts the list, views/h2h.py first
\* drops the rows without a score when it cuts.
Window(m, sel, list) ==
    IF sel = "All" THEN list
    ELSE LET n == IF sel = "Last 6" THEN 6 ELSE 10 IN
         IF m = ViewsH2H THEN Take(WithScore(list), n) ELSE Take(list, n)

SelectMatches ==
    /\ a_pc = "select"
    /\ matches' = Window(agg_module, selection, matches)
    /\ a_i' = 1
    /\ a_pc' = "loop"
    /\ UNCHANGED <<agg_module, selection, home_team_name, away_team_name, tallyVars, rates>>
    /\ UNCHANGED aroundAgg

\* (mutation of Counted: the away half of the score is counted on both sides)
CountedAwayTwice(m, row, pair) == ScorePair(pair.away, pair.away)

\* The score of a row as the loop counts it: print_h2h.py turns it when the
\* row's home side is not resolved to the scorebox home team, display_data of
\* views/h2h.py counts the row's own home and away columns.
Counted(m, row, pair) ==
    IF /\ m = PrintH2H
       /\ get_closest_team_name(PrintH2H, row.Domicile, <<home_team_name, away_team_name>>)
             # home_team_name
    THEN ScorePair(pair.away, pair.home)
    ELSE pair

\* One pass of `for m in matches:`.
AggregateRow ==
    /\ a_pc = "loop"
    /\ a_i <= Len(matches)
    /\ LET row == matches[a_i]
           pair == parse_score(row.Score)
           own == Counted(agg_module, row, pair)
       IN IF pair = NoScore
          THEN UNCHANGED tallyVars
          ELSE /\ home_win' = IF own.home > own.away THEN home_win + 1 ELSE home_win
               /\ away_win' = IF own.home < own.away THEN away_win + 1 ELSE away_win
               /\ draw' = IF own.home = own.away THEN draw + 1 ELSE draw
               /\ btts' = IF pair.home > 0 /\ pair.away > 0 THEN btts + 1 ELSE btts
               /\ over15' = IF pair.home + pair.away >= 2 THEN over15 + 1 ELSE over15
               /\ over25' = IF pair.home + pair.away >= 3 THEN over25 + 1 ELSE over25
               /\ home_goal' = home_goal + own.home
               /\ away_goal' = away_goal + own.away
    /\ a_i' = a_i + 1
    /\ UNCHANGED <<agg_module, selection, matches, home_team_name, away_team_name, rates,
                   a_pc>>
    /\ UNCHANGED aroundAgg

\* count / total: ZeroDivisionError when total is 0.
Divides(total) == total # 0
Ratio(count, total) == <<count, total>>

\* The divisions behind the loop and in the rendering.
AggregateRates ==
    /\ a_pc = "loop"
    /\ a_i > Len(matches)
    /\ LET total_games == Len(matches) IN
       IF Divides(total_games)
       THEN /\ rates' = [home_win_pct |-> Ratio(home_win, total_games),
                         draw_pct |-> Ratio(draw, total_games),
                         away_win_pct |-> Ratio(away_win, total_games),
                         btts_pct |-> Ratio(btts, Len(matches)),
                         over15_pct |-> Ratio(over15, Len(matches)),
                         over25_pct |-> Ratio(over25, Len(matches)),
                         home_goal_avg |-> Ratio(home_goal, Len(matches)),
                         away_goal_avg |-> Ratio(away_goal, Len(matches))]
            /\ a_pc' = "done"
       ELSE /\ rates' = rates
            /\ a_pc' = "raised"
    /\ UNCHANGED <<agg_module, selection, matches, home_team_name, away_team_name, a_i,
                   tallyVars>>
    /\ UNCHANGED aroundAgg

AggInit ==
    /\ CoreIdle
    /\ MergeIdle
    /\ IdentityIdle
    /\ H2HIdle
    /\ ScoreIdle
    /\ HistoryIdle
    /\ NamesIdle
    /\ MoreIdle
    /\ agg_module \in AggModules
    /\ selection \in Selections
    /\ matches \in MatchLists
    /\ home_team_name = LeHavre
    /\ away_team_name = Ete
    /\ a_i = 1
    /\ NoTally
    /\ rates = NoRates
    /\ a_pc = "select"

AggNext == SelectMatches \/ AggregateRow \/ AggregateRates

SpecAgg == AggInit /\ [][AggNext]_vars

\* ------------------------------ extract_match_teams, is_home_match, is_away_match
\* views/h2h.py 93-183 and print_h2h.py 72-164, which differ in their
\* normalize_team_name only.
TeamsModules == {ViewsH2H, PrintH2H}

\* The report URLs: none; Le Havre at home; Ete at home, with a trailing
\* slash; one team only; one name token; the date first; two splits with one
\* side right each; an accent in the report.
ReportUrls ==
    { <<>>,
      <<"/", "m", "/", "L", "e", "-", "H", "a", "v", "r", "e", "-", "E", "t", "e", "-", "5", "-", "2", "0", "2", "4">>,
      <<"/", "m", "/", "E", "t", "e", "-", "L", "e", "-", "H", "a", "v", "r", "e", "-", "5", "-", "2", "0", "2", "4", "/">>,
      <<"/", "m", "/", "L", "e", "-", "H", "a", "v", "r", "e", "-", "5", "-", "2", "0", "2", "4">>,
      <<"/", "m", "/", "E", "t", "e", "-", "2", "0", "2", "4">>,
      <<"/", "m", "/", "2", "0", "2", "4", "-", "E", "t", "e", "-", "L", "e">>,
      <<"/", "m", "/", "L", "e", "-", "H", "a", "v", "r", "e", "-", "b", "-", "E", "t", "e", "-", "5">>,
      <<"/", "m", "/", "L", "e", "-", "H", "a", "v", "r", "e", "-", "E'", "t", "e", "-", "5">> }

ScoreboxPairs == {<<LeHavre, Ete>>, <<Ete, LeHavre>>}

\* text.rstrip("/")
RECURSIVE RStripSlash(_)
RStripSlash(text) ==
    IF text # <<>> /\ text[Len(text)] = "/" THEN RStripSlash(SubSeq(text, 1, Len(text) - 1))
    ELSE text

\* text.split(sep): the pieces between the separators, from position n on,
\* piece being the one begun.
RECURSIVE SplitOn(_, _, _, _)
SplitOn(text, sep, n, piece) ==
    IF n > Len(text) THEN <<piece>>
    ELSE IF text[n] = sep THEN <<piece>> \o SplitOn(text, sep, n + 1, <<>>)
    ELSE SplitOn(text, sep, n + 1, Append(piece, text[n]))

\* token.isdigit()
IsDigits(token) ==
    token # <<>> /\ \A n \in 1..Len(token) : token[n] \in {"0", "1", "2", "3", "4", "5", "6", "7", "8", "9"}

\* `for token in tokens: if token.isdigit(): break; candidate_tokens.append(token)`
RECURSIVE UntilDigits(_)
UntilDigits(tokens) ==
    IF tokens = <<>> \/ IsDigits(Head(tokens)) THEN <<>>
    ELSE <<Head(tokens)>> \o UntilDigits(Tail(tokens))

candidate_tokens(report) ==
    LET parts == SplitOn(RStripSlash(report), "/", 1, <<>>)
    IN UntilDigits(SplitOn(parts[Len(parts)], "-", 1, <<>>))

\* "-".join(tokens)
RECURSIVE Join(_)
Join(tokens) ==
    IF tokens = <<>> THEN <<>>
    ELSE IF Len(tokens) = 1 THEN tokens[1]
    ELSE tokens[1] \o <<"-">> \o Join(Tail(tokens))

\* The split at split_point, and its points.
SplitAt(tokens, sp) ==
    [found |-> TRUE, home |-> Join(SubSeq(tokens, 1, sp)),
     away |-> Join(SubSeq(tokens, sp + 1, Len(tokens)))]

SplitScore(m, split, home, away) ==
    (IF normalize_team_name(m, split.home) = normalize_team_name(m, home) THEN 1 ELSE 0)
    + (IF normalize_team_name(m, split.away) = normalize_team_name(m, away) THEN 1 ELSE 0)

\* (mutation of Better: `if score >= best_score`, the last of the best splits)
BetterOrEqual(points, best_points) == points >= best_points

\* `if score > best_score`
Better(points, best_points) == points > best_points

\* `for split_point in range(1, len(candidate_tokens))` from sp on, with
\* best_split and best_points so far.
RECURSIVE TrySplits(_, _, _, _, _, _, _)
TrySplits(m, tokens, home, away, sp, best, best_points) ==
    IF sp >= Len(tokens) THEN best
    ELSE LET split == SplitAt(tokens, sp)
             points == SplitScore(m, split, home, away)
         IN IF Better(points, best_points)
            THEN TrySplits(m, tokens, home, away, sp + 1, split, points)
            ELSE TrySplits(m, tokens, home, away, sp + 1, best, best_points)

extract_match_teams(m, report, home, away) ==
    TrySplits(m, candidate_tokens(report), home, away, 1, NoSplit, -1)

\* norm_a in norm_b
IsIn(a, b) ==
    \E n \in 0..(Len(b) - Len(a)) : SubSeq(b, n + 1, n + Len(a)) = a

\* (mutation of is_away_match: every match with a report that is split)
is_away_match_any(m, report, home, away) ==
    report # <<>> /\ extract_match_teams(m, report, home, away).found

is_home_match(m, report, home, away) ==
    IF report = <<>> THEN FALSE
    ELSE LET extracted_home == extract_match_teams(m, report, home, away).home IN
         IF extracted_home # <<>>
         THEN IsIn(normalize_team_name(m, home), normalize_team_name(m, extracted_home))
         ELSE FALSE

is_away_match(m, report, home, away) ==
    IF report = <<>> THEN FALSE
    ELSE LET extracted_home == extract_match_teams(m, report, home, away).home IN
         IF extracted_home # <<>>
         THEN ~IsIn(normalize_team_name(m, home), normalize_team_name(m, extracted_home))
         ELSE FALSE

ExtractMatchTeams ==
    /\ "extract_match_teams" \notin called
    /\ best_split' = extract_match_teams(teams_module, report_url, scorebox_home, scorebox_away)
    /\ called' = called \cup {"extract_match_teams"}
    /\ UNCHANGED <<teams_module, report_url, scorebox_home, scorebox_away, is_home, is_away>>
    /\ UNCHANGED aroundTeams

IsHomeMatch ==
    /\ "is_home_match" \notin called
    /\ is_home' = is_home_match(teams_module, report_url, scorebox_home, scorebox_away)
    /\ called' = called \cup {"is_home_match"}
    /\ UNCHANGED <<teams_module, report_url, scorebox_home, scorebox_away, best_split, is_away>>
    /\ UNCHANGED aroundTeams

IsAwayMatch ==
    /\ "is_away_match" \notin called
    /\ is_away' = is_away_match(teams_module, report_url, scorebox_home, scorebox_away)
    /\ called' = called \cup {"is_away_match"}
    /\ UNCHANGED <<teams_module, report_url, scorebox_home, scorebox_away, best_split, is_home>>
    /\ UNCHANGED aroundTeams

TeamsInit ==
    /\ CoreIdle
    /\ MergeIdle /\ IdentityIdle /\ H2HIdle /\ ScoreIdle /\ HistoryIdle /\ NamesIdle
    /\ AggIdle
    /\ StreakIdle
    /\ ViewIdle
    /\ teams_module \in TeamsModules
    /\ report_url \in ReportUrls
    /\ \E pair \in ScoreboxPairs : scorebox_home = pair[1] /\ scorebox_away = pair[2]
    /\ best_split = NoSplit
    /\ is_home = FALSE
    /\ is_away = FALSE
    /\ called = {}

TeamsNext == ExtractMatchTeams \/ IsHomeMatch \/ IsAwayMatch

SpecTeams == TeamsInit /\ [][TeamsNext]_vars

\* ------------------------------------------- the pills of the H2H view
\* head_to_head_section: the match count pill (views/h2h.py 704-710,
\* print_h2h.py 379-382) and then the Home / Away pill (views/h2h.py 712-720,
\* print_h2h.py 605 and 756) on the rows of the history.  A row has its
\* date (a day number), its score and its report URL.
ViewSides == {"All", "Home", "Away"}

\* The report of a match of Le Havre against Ete, at Le Havre or at Ete.
ReportAtLeHavre ==
    <<"/", "m", "/", "L", "e", "-", "H", "a", "v", "r", "e", "-", "E", "t", "e", "-", "5">>
ReportAtEte ==
    <<"/", "m", "/", "E", "t", "e", "-", "L", "e", "-", "H", "a", "v", "r", "e", "-", "5">>

\* The histories: played matches in the order of the table, the most recent
\* first.
ViewHistories ==
    UNION { {[n \in 1..len |->
                [Date |-> len - n + 1, Score |-> <<"1", Hyphen, "1">>,
                 Rapport |-> IF n \in atHome THEN ReportAtLeHavre ELSE ReportAtEte]]
             : atHome \in SUBSET (1..len)}
          : len \in 0..MaxViewRows }

\* `if selection == "Last 6": ... elif selection == "Last 10": ...`
ViewCount ==
    /\ v_pc = "count"
    /\ view_matches' = Window(view_module, view_selection, view_rows)
    /\ v_pc' = "side"
    /\ UNCHANGED <<view_module, view_selection, view_selection2, view_rows>>
    /\ UNCHANGED aroundView

\* [m for m in matches if is_home_match(m, home_team_name, away_team_name)]
\* and the same with is_away_match, for the scorebox of Le Havre against Ete.
OfSide(m, side, list) ==
    CASE side = "Home" ->
            SelectSeq(list, LAMBDA row : is_home_match(m, row.Rapport, LeHavre, Ete))
      [] side = "Away" ->
            SelectSeq(list, LAMBDA row : is_away_match(m, row.Rapport, LeHavre, Ete))
      [] OTHER -> list

\* `if selection2 == "All": ... elif selection2 == "Home": ... elif "Away"`
ViewSide ==
    /\ v_pc = "side"
    /\ view_matches' = OfSide(view_module, view_selection2, view_matches)
    /\ v_pc' = "done"
    /\ UNCHANGED <<view_module, view_selection, view_selection2, view_rows>>
    /\ UNCHANGED aroundView

ViewInit ==
    /\ CoreIdle
    /\ MergeIdle /\ IdentityIdle /\ H2HIdle /\ ScoreIdle /\ HistoryIdle /\ NamesIdle
    /\ AggIdle
    /\ StreakIdle
    /\ TeamsIdle
    /\ view_module \in AggModules
    /\ view_selection \in Selections
    /\ view_selection2 \in ViewSides
    /\ view_rows \in ViewHistories
    /\ view_matches = view_rows
    /\ v_pc = "count"

ViewNext == ViewCount \/ ViewSide

SpecView == ViewInit /\ [][ViewNext]_vars

\* ------------------------------------------------- current_streak, streaks
\* views/statistics.py: current_streak and the streak metrics of
\* display_team_summary for one team.  A row of df_filtered has its result
\* ("V" win, "N" draw, "D" defeat), its goals scored BM and conceded BE.
Results == {"V", "N", "D"}
StreakRows == [Resultat : Results, BM : 0..2, BE : 0..1]

\* The windows: every short one, and V, V, N, D.
StreakWindows ==
    UNION {[1..n -> StreakRows] : n \in 0..MaxWindow}
    \cup { << [Resultat |-> "V", BM |-> 2, BE |-> 0], [Resultat |-> "V", BM |-> 1, BE |-> 0],
              [Resultat |-> "N", BM |-> 0, BE |-> 0], [Resultat |-> "D", BM |-> 0, BE |-> 1] >> }

\* `for v in values: if condition(v): streak += 1 else: break`
current_streak(values, condition) ==
    LET from[i \in 1..(Len(values) + 1)] ==
           IF i > Len(values) THEN 0
           ELSE IF condition[values[i]] THEN 1 + from[i + 1]
           ELSE 0
    IN from[1]

\* The lambdas of lines 256-282, as functions of the value they test.
IsV == [x \in Results |-> x = "V"]
IsVN == [x \in Results |-> x \in {"V", "N"}]
IsN == [x \in Results |-> x = "N"]
IsDN == [x \in Results |-> x \in {"D", "N"}]
IsD == [x \in Results |-> x = "D"]
NotV == [x \in Results |-> x # "V"]
NotN == [x \in Results |-> x # "N"]
NotD == [x \in Results |-> x # "D"]
AtLeast1 == [x \in Nat |-> x >= 1]
Is0 == [x \in Nat |-> x = 0]
AtLeast3 == [x \in Nat |-> x >= 3]
AtMost2 == [x \in Nat |-> x <= 2]

\* df_filtered[col].tolist()
Series(df, col) == [n \in 1..Len(df) |-> df[n][col]]

\* (mutation of StreakValues: each streak goes on from where the one before
\* it stopped, instead of from the start of the window)
StreakValuesChained(cols, df) ==
    LET results == IF "Resultat" \in cols THEN Series(df, "Resultat") ELSE <<>>
        wins == current_streak(results, IsV)
        rest == SubSeq(results, wins + 1, Len(results))
    IN [x \in StreakNames |->
          CASE x = "Consecutive wins" -> wins
            [] x = "Consecutive wins or draw" -> current_streak(rest, IsVN)
            [] x = "No defeat" -> current_streak(rest, NotD)
            [] OTHER -> 0]

\* Lines 254-284: every streak from the start of the same list.
StreakValues(cols, df) ==
    LET results == IF "Resultat" \in cols THEN Series(df, "Resultat") ELSE <<>>
        bm_series == Series(df, "BM")
        be_series == Series(df, "BE")
        total_series == [n \in 1..Len(df) |-> df[n].BM + df[n].BE]
        scored == "BM" \in cols
        conceded == "BE" \in cols
    IN [x \in StreakNames |->
          CASE x = "Consecutive wins" -> current_streak(results, IsV)
            [] x = "Consecutive wins or draw" -> current_streak(results, IsVN)
            [] x = "Consecutive draws" -> current_streak(results, IsN)
            [] x = "Consecutive defeats or draw" -> current_streak(results, IsDN)
            [] x = "Consecutive defeats" -> current_streak(results, IsD)
            [] x = "No win" -> current_streak(results, NotV)
            [] x = "No draw" -> current_streak(results, NotN)
            [] x = "No defeat" -> current_streak(results, NotD)
            [] x = "1 goal scored or more" ->
                  IF scored THEN current_streak(bm_series, AtLeast1) ELSE 0
            [] x = "No goal scored" ->
                  IF scored THEN current_streak(bm_series, Is0) ELSE 0
            [] x = "1 goal conceded or more" ->
                  IF conceded THEN current_streak(be_series, AtLeast1) ELSE 0
            [] x = "No goal conceded" ->
                  IF conceded THEN current_streak(be_series, Is0) ELSE 0
            [] x = "GF+GA over 2.5" ->
                  IF scored /\ conceded THEN current_streak(total_series, AtLeast3) ELSE 0
            [] x = "GF+GA under 2.5" ->
                  IF scored /\ conceded THEN current_streak(total_series, AtMost2) ELSE 0]

\* (mutation of Kept: every non-zero streak is kept)
KeptNonZero(values) == {x \in StreakNames : values[x] > 0}

\* Lines 286-304: "" for a streak of 0, and of the others those above 1.
Kept(values) == {x \in StreakNames : values[x] > 0 /\ values[x] > 1}

\* One team of the loop, from the form statistics on: `points = ... /
\* num_matches` raises ZeroDivisionError for an empty window.
TeamStreaks ==
    /\ k_pc = "call"
    /\ IF Len(df_filtered) = 0
       THEN /\ k_pc' = "raised"
            /\ UNCHANGED <<streaks, streaks_data>>
       ELSE /\ streaks' = StreakValues(columns, df_filtered)
            /\ streaks_data' = Kept(StreakValues(columns, df_filtered))
            /\ k_pc' = "done"
    /\ UNCHANGED <<columns, df_filtered>>
    /\ UNCHANGED aroundStreak

StreakInit ==
    /\ CoreIdle
    /\ MergeIdle /\ IdentityIdle /\ H2HIdle /\ ScoreIdle /\ HistoryIdle /\ NamesIdle
    /\ AggIdle
    /\ TeamsIdle
    /\ ViewIdle
    /\ columns \in SUBSET {"Resultat", "BM", "BE"}
    /\ df_filtered \in StreakWindows
    /\ streaks = NoStreaks
    /\ streaks_data = {}
    /\ k_pc = "call"

StreakNext == TeamStreaks

SpecStreak == StreakInit /\ [][StreakNext]_vars

\* ------------------------------------------------------------------ helpers
RECURSIVE Pow2(_)
Pow2(n) == IF n = 0 THEN 1 ELSE 2 * Pow2(n - 1)

AllKind(h, k) == \A i \in 1..Len(h) : h[i].kind = k

\* ------------------------------------------------------------ claims C1..C4
\* C1: safe_get either returns a successful response or raises; when all
\* `retries` attempts are answered 429 it raises and never returns None.
C1_ResponseOrRaise ==
    /\ sg_pc = "returned" => result = Response
    /\ (Len(history) = retries /\ AllKind(history, "429")) => sg_pc = "raised"

\* C2: with a retry cap of 3 and initial delay d, three consecutive 429
\* answers without a retry hint make safe_get wait d, 2d, 4d and then fail
\* with an error.
C2_Backoff429 ==
    ( /\ retries = 3
      /\ Len(history) = 3
      /\ \A i \in 1..3 : history[i].kind = "429" /\ history[i].hdr = NoHeader )
    => /\ sleeps = <<initial_delay, 2 * initial_delay, 4 * initial_delay>>
       /\ sg_pc = "raised"

\* C3: on a 429 answer safe_get waits Retry-After seconds when the header is
\* present, and otherwise the exponential-backoff delay, which starts at
\* initial_delay and doubles after each 429.
C3_RetryHintElseBackoff ==
    ( /\ AllKind(history, "429")
      /\ \A i \in 1..Len(history) : history[i].hdr.header # "http-date" )
    => /\ Len(sleeps) = Len(history)
       /\ \A i \in 1..Len(history) :
            sleeps[i] = IF history[i].hdr.header = "seconds"
                        THEN history[i].hdr.secs
                        ELSE initial_delay * Pow2(i - 1)

\* C4: when every attempt fails with a non-429 HTTP error or a transport
\* exception, safe_get makes `retries` attempts, sleeps initial_delay,
\* 2*initial_delay, ... between them (retries-1 sleeps, none after the last)
\* and raises the exception of the last attempt.
C4_ErrorsRetriedThenRaised ==
    AllKind(history, "error") =>
       /\ Len(history) <= retries
       /\ IF Len(history) = retries
          THEN /\ sg_pc = "raised"
               /\ result = Raised(history[retries].exc)
               /\ sleeps = [i \in 1..(retries - 1) |-> initial_delay * Pow2(i - 1)]
          ELSE /\ sg_pc = "request"
               /\ attempt = Len(history) + 1
               /\ sleeps = [i \in 1..Len(history) |-> initial_delay * Pow2(i - 1)]

\* Three failing attempts, the last with another exception than the second.
C4_Witness ==
    /\ retries = 3
    /\ Len(history) = 3
    /\ AllKind(history, "error")
    /\ history[2].exc # history[3].exc
    /\ sg_pc = "raised"
    /\ Len(sleeps) = 2

C6_FailedUrlSkipped ==
    /\ b_pc # "done" => output_file = <<>> /\ ENABLED BatchNext
    /\ b_pc = "done" =>
          /\ Len(outcomes) = Len(urls)
          /\ \A i \in 1..Len(urls) : transform_url(urls[i]) \in requested
          /\ {datasets[k].url_index + 1 : k \in 1..Len(datasets)}
               = {i \in 1..Len(urls) : outcomes[i] = "response"}
          /\ Len(datasets) = Cardinality({i \in 1..Len(urls) : outcomes[i] = "response"})
          /\ output_file = <<datasets>>

\* The first URL ran into 429 on every attempt, the second was fetched.
C6_Witness ==
    /\ b_pc = "done"
    /\ batch_module = TeamModule
    /\ Len(urls) = 2
    /\ outcomes = <<"None", "response">>
    /\ Len(datasets) = 1
    /\ Len(output_file) = 1

\* ----------------------------------------------------------------- claim C7
\* C7: in the player-enrichment pass a player page whose fetch fails after
\* retry exhaustion, also when every attempt was answered 429, yields an empty
\* additional_info for that player only: the remaining rows are still
\* processed and the JSON file is rewritten at the end of the pass.
C7_FailedPlayerIsolated ==
    /\ p_pc # "crashed"
    /\ \A i \in 1..p_i :
          player_outcomes[i] \in {"raise", "None"} => pdata[i].additional_info = EmptyInfo
    /\ p_pc = "done" =>
          /\ p_i = Len(pdata)
          /\ file_writes = 1
          /\ file = pdata

\* ------------------------------------------------------- claims C8..C10
\* The header row parse_table reads the field names from, its columns whose
\* text is "Matchs" in any case, and the other ones.
ChosenRow == sub_cells(thead)
MatchsTexts == {"Matchs", "MATCHS", "matchs"}
MatchsCols == {i \in 1..Len(ChosenRow) : ChosenRow[i].text \in MatchsTexts}
OtherCols == (1..Len(ChosenRow)) \ MatchsCols
HeaderParsed == t_pc \in {"rows", "done"}
Source(n) == tbody[row_src[n]]
SyntheticKeys == {"Joueur URL", "Match URL"}

\* What C8 says of the header: the retained columns are exactly the non-Matchs
\* ones, in order, and no Matchs text is a key of the tooltip map.
C8_HeaderPart ==
    /\ Len(indices_to_keep) = Cardinality(OtherCols)
    /\ {indices_to_keep[k] : k \in 1..Len(indices_to_keep)} = OtherCols
    /\ \A k \in 1..Len(indices_to_keep) :
          /\ k > 1 => indices_to_keep[k - 1] < indices_to_keep[k]
          /\ header_sub[k] = ChosenRow[indices_to_keep[k]].text
    /\ Keys(sub_tip) \cap MatchsTexts = {}
    /\ \A i \in OtherCols : ChosenRow[i].tip # <<>> => HasKey(sub_tip, ChosenRow[i].text)

\* What C8 says of every row besides the values of the kept columns: no Matchs
\* field, and no value taken from a cell of a dropped column.
C8_RowPart(n) ==
    /\ Keys(rows_data[n]) \cap MatchsTexts = {}
    /\ \A i \in OtherCols : i <= Len(Source(n)) /\ HasKey(rows_data[n], ChosenRow[i].text)
    /\ \A e \in 1..Len(rows_data[n]) :
          \E j \in OtherCols :
             \/ rows_data[n][e].k = ChosenRow[j].text /\ rows_data[n][e].v = Source(n)[j].text
             \/ /\ rows_data[n][e].k \in SyntheticKeys
                /\ rows_data[n][e].v \in {Source(n)[j].href,
                                          "https://fbref.com/fr/joueurs/abc/nom"}

\* C8 (as stated): parse_table drops a column exactly when its chosen-header-row
\* text equals "Matchs" case-insensitively: the field is neither in the tooltip
\* map nor in any row, the cells at that index are not used, and every other
\* column is kept with its cells aligned to its own header.
C8_OnlyMatchsDropped ==
    HeaderParsed =>
       /\ C8_HeaderPart
       /\ \A n \in 1..Len(rows_data) :
             /\ C8_RowPart(n)
             /\ \A i \in OtherCols :
                   DictGet(rows_data[n], ChosenRow[i].text) = Source(n)[i].text

\* C9 (as stated): every row returned by parse_table has a field-name set equal
\* to the retained header field-name set.
C9_RowKeysAreHeader ==
    HeaderParsed =>
       \A n \in 1..Len(rows_data) :
          Keys(rows_data[n]) = {header_sub[k] : k \in 1..Len(header_sub)}

\* C9 (amended): the field-name set of every returned row is the retained
\* header field-name set plus "Joueur URL" when a retained header is "Joueur"
\* and, in get_team_data, "Match URL" when a retained header is "Rapport de
\* match".
C9_RowKeysAreHeaderPlusUrls ==
    HeaderParsed =>
       \A n \in 1..Len(rows_data) :
          Keys(rows_data[n]) =
             {ChosenRow[i].text : i \in OtherCols}
             \cup (IF \E i \in OtherCols : ChosenRow[i].text = "Joueur"
                   THEN {"Joueur URL"} ELSE {})
             \cup (IF /\ parse_module = TeamModule
                      /\ \E i \in OtherCols : ChosenRow[i].text = "Rapport de match"
                   THEN {"Match URL"} ELSE {})

\* A Joueur column, a body row shorter than the header (discarded) and one
\* longer than it (kept).
C9_Witness ==
    /\ t_pc = "done"
    /\ \E i \in OtherCols : ChosenRow[i].text = "Joueur"
    /\ Len(ChosenRow) = 2
    /\ Len(tbody) = 2
    /\ Len(tbody[1]) = 1
    /\ Len(tbody[2]) = 3
    /\ row_src = <<2>>

JoueurCols == {i \in OtherCols : ChosenRow[i].text = "Joueur"}
LastJoueur == CHOOSE j \in JoueurCols : \A l \in JoueurCols : l <= j

\* The "Joueur URL" field sits right before the "Joueur" field.
C10_Placed(n) ==
    /\ HasKey(rows_data[n], "Joueur URL")
    /\ HasKey(rows_data[n], "Joueur")
    /\ KeyPos(rows_data[n], "Joueur URL") + 1 = KeyPos(rows_data[n], "Joueur")

\* The href of the Joueur cell made absolute against https://fbref.com.
C10_Absolute(href) ==
    IF href = "/fr/joueurs/abc/nom" THEN "https://fbref.com/fr/joueurs/abc/nom" ELSE href

RowBefore(j, s) == standard_before[j].rows[s]
RowNow(j, s) == standard_tables[j].rows[s]
SameJoueurString(a, b) ==
    HasKey(a, "Joueur") /\ HasKey(b, "Joueur") /\ DictGet(a, "Joueur") = DictGet(b, "Joueur")
\* The rows of extra table i for the player of row r0 that carry key.
DonorRows(i, r0, key) ==
    {e \in 1..Len(extra_tables[i].rows) :
        SameJoueurString(extra_tables[i].rows[e], r0) /\ HasKey(extra_tables[i].rows[e], key)}
Donors(r0, key) == {i \in 1..Len(extra_tables) : DonorRows(i, r0, key) # {}}
Least(S) == CHOOSE x \in S : \A y \in S : x <= y
FirstDonorValue(r0, key) ==
    LET i == Least(Donors(r0, key))
    IN DictGet(extra_tables[i].rows[Least(DonorRows(i, r0, key))], key)
MergeKeys == {"Joueur", "MJ", "Arrets"}

\* C11: merge_keeper_stats never changes the value of a field a standard row
\* already has; a key absent from a standard row and present in an extra row
\* with the same "Joueur" string is added exactly once, with the value of the
\* first extra table in list order that carries it.
C11_StandardFieldsKept ==
    m_pc \in {"loop", "done"} =>
       /\ Len(standard_tables) = Len(standard_before)
       /\ \A j \in 1..Len(standard_before) :
             /\ Len(standard_tables[j].rows) = Len(standard_before[j].rows)
             /\ \A s \in 1..Len(standard_before[j].rows) :
                   /\ \A key \in Keys(RowBefore(j, s)) :
                         /\ HasKey(RowNow(j, s), key)
                         /\ DictGet(RowNow(j, s), key) = DictGet(RowBefore(j, s), key)
                   /\ Cardinality(Keys(RowNow(j, s))) = Len(RowNow(j, s))
                   /\ m_pc = "done" =>
                         \A key \in MergeKeys \ Keys(RowBefore(j, s)) :
                            Donors(RowBefore(j, s), key) # {} =>
                               /\ HasKey(RowNow(j, s), key)
                               /\ DictGet(RowNow(j, s), key)
                                     = FirstDonorValue(RowBefore(j, s), key)

\* A standard row with "MJ" and without "Arrets" whose player is in two extra
\* tables: "Arrets" came from the first one and "MJ" is still the standard one.
C11_Witness ==
    /\ m_pc = "done"
    /\ \E j \in 1..Len(standard_before) : \E s \in 1..Len(standard_before[j].rows) :
          /\ HasKey(RowBefore(j, s), "MJ")
          /\ Cardinality(Donors(RowBefore(j, s), "Arrets")) >= 2
          /\ DictGet(RowNow(j, s), "Arrets") = "11"
          /\ DictGet(RowNow(j, s), "MJ") = "1"

\* C12: after merge_keeper_stats, for every extra table and every standard
\* table, each tooltip key of the extra table's header map is in the standard
\* table's header map, and the keys that were there keep their tooltip.
C12_TipsPropagated ==
    m_pc = "done" =>
       \A j \in 1..Len(standard_tables) :
          /\ \A i \in 1..Len(extra_tables) :
                Keys(extra_tables[i].data_tip) \subseteq Keys(standard_tables[j].data_tip)
          /\ \A key \in Keys(standard_before[j].data_tip) :
                /\ HasKey(standard_tables[j].data_tip, key)
                /\ DictGet(standard_tables[j].data_tip, key)
                      = DictGet(standard_before[j].data_tip, key)

\* ----------------------------------------------------- claims C13..C14
\* A URL of the shape <site>/fr/equipes/<id><tail><name>, with an id and a
\* name that are not empty and hold no "/".
OfShape(text, tail) ==
    /\ Len(text) >= 2
    /\ text[1] = Site
    /\ text[2] = TeamsPrefix
    /\ \E e \in 3..Len(text) :
          /\ \A q \in 3..e : ~HasSlash(text[q])
          /\ TailAt(text, e, tail)
          /\ \A q \in (e + Len(tail) + 1)..Len(text) : ~HasSlash(text[q])

\* C13: for every team id and team name (not empty, without "/"),
\* extract_team_id_and_name returns exactly (id, name) on the canonical URL
\* .../fr/equipes/<id>/Statistiques-<name> and on the historical URL
\* .../fr/equipes/<id>/historique/Stats-et-historique-de-<name>, and
\* (None, None) on a URL of neither shape.
C13_IdentityRoundTrip ==
    i_pc = "done" =>
       /\ team_shape \in {"canonical", "historical"} =>
             identity = [id |-> team_id, name |-> team_name]
       /\ (/\ ~OfShape(team_url, <<Slash, StatsWord>>)
           /\ ~OfShape(team_url, <<Slash, HistoryWord, Slash, HistoryStatsWord>>)) =>
             identity = NoIdentity

\* A historical URL whose id and name hold the keywords of the patterns.
C13_Witness ==
    /\ i_pc = "done"
    /\ team_shape = "historical"
    /\ team_id = <<HistoryWord>>
    /\ team_name = <<StatsWord, "Le-Havre">>
    /\ identity = [id |-> <<HistoryWord>>, name |-> <<StatsWord, "Le-Havre">>]

\* A team URL of neither shape (a row cell without a link included).
Unrecognised(u) ==
    /\ ~OfShape(u, <<Slash, StatsWord>>)
    /\ ~OfShape(u, <<Slash, HistoryWord, Slash, HistoryStatsWord>>)

\* C14: build_h2h_url returns None whenever identity extraction fails for
\* either team URL; then fetch_h2h_data returns an empty result without any
\* HTTP request, and a row of parse_table_html gets no "h2h_url" field.  When
\* both extractions succeed the URL is exactly
\* base/<homeId>/<awayId>/Historique-<homeName>-contre-<awayName>.
C14_NoUrlWithoutIdentity ==
    h_pc \in {"built", "page", "done", "raised"} =>
       IF Unrecognised(home_url) \/ Unrecognised(away_url)
       THEN /\ h2h_url = NoUrl
            /\ requested = {}
            /\ history = <<>>
            /\ h_pc \in {"built", "done"}
            /\ h_pc = "done" =>
                  h2h_result = IF caller = "fetch_h2h_data" THEN EmptyResult
                               ELSE [kind |-> "row", h2h_url |-> NoUrl]
       ELSE /\ h2h_url = <<H2HBase, Slash, home_url[3], Slash, away_url[3], Slash,
                           "Historique-", home_url[Len(home_url)], "-contre-",
                           away_url[Len(away_url)]>>
            /\ (home_url[3] = "e2d8892c" /\ away_url[3] = "d01a653b") =>
                  h2h_url = <<H2HBase, Slash, "e2d8892c", Slash, "d01a653b", Slash,
                              "Historique-", "Paris-Saint-Germain", "-contre-",
                              "Argentinos-Juniors">>

\* fetch_h2h_data returned {} for a home URL that is no team page, next to an
\* away URL that is one.
C14_Witness ==
    /\ h_pc = "done"
    /\ caller = "fetch_h2h_data"
    /\ home_url = <<Site, "/fr/joueurs/", "abc", Slash, "nom">>
    /\ away_url = CanonicalUrl(<<"5c2737db">>, <<"Le-Havre">>)
    /\ h2h_result = EmptyResult
    /\ requested = {}

\* ------------------------------------------------------------- claim C15
\* An integer with spaces around it.
IsNumber(text) == IsInt(Strip(text))
NoParens(text) == \A n \in 1..Len(text) : text[n] \notin {"(", ")"}
\* A parenthesized annotation, or nothing, with spaces around it.
IsAnnotation(text) ==
    LET t == Strip(text) IN
    \/ t = <<>>
    \/ /\ Len(t) >= 2
       /\ t[1] = "("
       /\ t[Len(t)] = ")"
       /\ NoParens(SubSeq(t, 2, Len(t) - 1))
\* The cuts of a string into <N> <dash> <M> <annotation>: N ends before the
\* dash at k, M ends at m.
ScoreCuts(text) ==
    {c \in (1..Len(text)) \X (1..Len(text)) :
        /\ c[1] < c[2]
        /\ text[c[1]] \in {Hyphen, EnDash}
        /\ IsNumber(SubSeq(text, 1, c[1] - 1))
        /\ IsNumber(SubSeq(text, c[1] + 1, c[2]))
        /\ IsAnnotation(SubSeq(text, c[2] + 1, Len(text)))}
\* Two non-negative integers separated by a hyphen or an en-dash, optionally
\* followed by a parenthesized annotation.
IsScoreForm(text) == ScoreCuts(text) # {}
FormValue(text) ==
    LET c == CHOOSE x \in ScoreCuts(text) : TRUE
    IN ScorePair(IntValue(Strip(SubSeq(text, 1, c[1] - 1))),
                 IntValue(Strip(SubSeq(text, c[1] + 1, c[2]))))

\* C15 (as stated): parse_score returns (N, M) for every string made of two
\* non-negative integers separated by a hyphen or an en-dash, optionally
\* followed by a parenthesized annotation; for every other string it returns
\* (None, None); it never raises.
C15_ScoreExactlyTheForm ==
    /\ s_pc # "raised"
    /\ s_pc = "done" =>
          score = IF IsScoreForm(score_str) THEN FormValue(score_str) ELSE NoScore

\* The pieces the parser reads once every "(...)" is taken out: the text
\* before the first dash, and the text behind it up to the next dash or the end.
FirstDashes(text) ==
    {k \in 1..Len(text) :
        /\ text[k] \in {Hyphen, EnDash}
        /\ \A n \in 1..(k - 1) : text[n] \notin {Hyphen, EnDash}}
SecondPieceEnd(text, k) ==
    LET later == {n \in (k + 1)..Len(text) : text[n] \in {Hyphen, EnDash}} IN
    IF later = {} THEN Len(text) ELSE (CHOOSE n \in later : \A l \in later : n <= l) - 1
ReadsAsScore(text) ==
    \E k \in FirstDashes(text) :
       /\ IsNumber(SubSeq(text, 1, k - 1))
       /\ IsNumber(SubSeq(text, k + 1, SecondPieceEnd(text, k)))

\* C15 (amended): parse_score returns (N, M) for every string of the form
\* above, and (None, None) exactly for the strings in which, once every
\* parenthesized group is removed, the text before the first dash or the text
\* between it and the next dash (the end when there is none) is not an
\* integer; it never raises.
C15_ScoreOfFirstTwoPieces ==
    /\ s_pc # "raised"
    /\ s_pc = "done" =>
          /\ IsScoreForm(score_str) => score = FormValue(score_str)
          /\ score = NoScore <=> ~ReadsAsScore(RemoveParens(score_str, 1))
          /\ (\A n \in 1..Len(score_str) : score_str[n] \notin {Hyphen, EnDash}) =>
                score = NoScore

\* "1-1 (2-1)" was parsed to (1, 1).
C15_Witness ==
    /\ s_pc = "done"
    /\ score_str = <<"1", Hyphen, "1", Space, "(", "2", Hyphen, "1", ")">>
    /\ score = ScorePair(1, 1)

\* ------------------------------------------------------------- claim C16
\* C16: every row returned by parse_games_history_all has a parseable date
\* within the last 10 years (the 3650 days before the processing time): older
\* rows and rows without a parseable date are absent.
C16_OnlyLastTenYears ==
    \A n \in 1..Len(history_rows) :
       /\ HasKey(history_rows[n], "Date")
       /\ IsDate(DictGet(history_rows[n], "Date"))
       /\ DaysAgo(DictGet(history_rows[n], "Date")) <= ten_years_ago

\* ---- C17
\* The normal form the claim compares names in: accents stripped, whitespace
\* and hyphens removed, lowercased.
ClaimNorm(name) ==
    SelectSeq([n \in 1..Len(name) |-> LowerChar(Unaccent(name[n]))],
              LAMBDA c : c \notin Separators)

KnownNames == {team_names[n] : n \in 1..Len(team_names)}

\* C17: get_closest_team_name compares names in their normal form (accents
\* stripped, whitespace and hyphens removed, lowercased): when the candidate's
\* normal form is that of a known name, the name returned is a known name of
\* that normal form, exactly as listed; when no known name reaches the 0.5
\* similarity with the candidate, the candidate is returned unchanged.
C17_ClosestByNormalForm ==
    n_pc = "done" =>
       /\ (\E k \in KnownNames : ClaimNorm(k) = ClaimNorm(abbrev)) =>
             closest \in KnownNames /\ ClaimNorm(closest) = ClaimNorm(abbrev)
       /\ (\A k \in KnownNames : ~ReachesCutoff(ClaimNorm(k), ClaimNorm(abbrev))) =>
             closest = abbrev
\* ---- C18
\* The rows of the aggregated list whose score parsed.
ParsedRows == {n \in 1..Len(matches) : parse_score(matches[n].Score) # NoScore}
Parsed == Cardinality(ParsedRows)

\* ratio = count / n, for n > 0
IsOver(ratio, count, n) == ratio[2] # 0 /\ ratio[1] * n = count * ratio[2]

\* C18: every rate and every goals-per-match average is its count divided by
\* the number of rows whose score parsed, not by the number of rows.
C18_RatesOverParsedRows ==
    (a_pc = "done" /\ Parsed > 0) =>
       /\ IsOver(rates.home_win_pct, home_win, Parsed)
       /\ IsOver(rates.draw_pct, draw, Parsed)
       /\ IsOver(rates.away_win_pct, away_win, Parsed)
       /\ IsOver(rates.btts_pct, btts, Parsed)
       /\ IsOver(rates.over15_pct, over15, Parsed)
       /\ IsOver(rates.over25_pct, over25, Parsed)
       /\ IsOver(rates.home_goal_avg, home_goal, Parsed)
       /\ IsOver(rates.away_goal_avg, away_goal, Parsed)

\* ---- C19
\* C19: with no match left after the filtering, the aggregation raises no
\* division error and reports no match and rates without a value.
C19_EmptySetWithoutDivision ==
    (a_pc \in {"done", "raised"} /\ Len(matches) = 0) =>
       a_pc = "done" /\ rates = NoRates

\* ---- C20
\* The reference team is the home side of row n: the names agree in their
\* normal form.
ReferenceAtHome(n) == ClaimNorm(matches[n].Domicile) = ClaimNorm(home_team_name)

\* The goals of row n for and against the reference team.
GoalsFor(n) ==
    LET pair == parse_score(matches[n].Score) IN
    IF ReferenceAtHome(n) THEN pair.home ELSE pair.away
GoalsAgainst(n) ==
    LET pair == parse_score(matches[n].Score) IN
    IF ReferenceAtHome(n) THEN pair.away ELSE pair.home

RECURSIVE SumOf(_, _)
SumOf(Goals(_), rows) ==
    IF rows = {} THEN 0
    ELSE LET n == CHOOSE x \in rows : TRUE IN Goals(n) + SumOf(Goals, rows \ {n})

\* C20: wins, draws, losses and goals are those of the reference (scorebox
\* home) team: a row where it is the away side and the score is a-b with a < b
\* is a win of it, and b goes to its goals.
C20_ReferencePerspective ==
    (a_pc \in {"done", "raised"} \/ (a_pc = "loop" /\ a_i > Len(matches))) =>
       /\ home_win = Cardinality({n \in ParsedRows : GoalsFor(n) > GoalsAgainst(n)})
       /\ draw = Cardinality({n \in ParsedRows : GoalsFor(n) = GoalsAgainst(n)})
       /\ away_win = Cardinality({n \in ParsedRows : GoalsFor(n) < GoalsAgainst(n)})
       /\ home_goal = SumOf(GoalsFor, ParsedRows)
       /\ away_goal = SumOf(GoalsAgainst, ParsedRows)
\* ---- C21
\* n is the length of the longest prefix of values whose elements all satisfy
\* the condition.
IsLeadingRun(n, values, condition) ==
    /\ n \in 0..Len(values)
    /\ \A i \in 1..n : condition[values[i]]
    /\ n < Len(values) => ~condition[values[n + 1]]

ResultSeries == [n \in 1..Len(df_filtered) |-> df_filtered[n].Resultat]
ScoredSeries == [n \in 1..Len(df_filtered) |-> df_filtered[n].BM]
ConcededSeries == [n \in 1..Len(df_filtered) |-> df_filtered[n].BE]
TotalSeries == [n \in 1..Len(df_filtered) |-> df_filtered[n].BM + df_filtered[n].BE]

MJCols == {i \in OtherCols : ChosenRow[i].text = "MJ"}
MJText(cells) == cells[CHOOSE j \in MJCols : \A l \in MJCols : l <= j].text

\* int(text) is 0, for the texts of the body cells.
ParsesToZero(text) == text = "0"

\* The body row has a cell for every retained column: it becomes a row of
\* fields.
BecomesRow(cells) == cells # <<>> /\ \A i \in OtherCols : i <= Len(cells)

\* C24: the team-page parse_table drops a row exactly when it has an "MJ"
\* field whose value parses to the integer 0; a row whose "MJ" value does not
\* parse, or without "MJ" field, is retained, and the retained rows are in
\* document order.
C24_OnlyZeroMJDropped ==
    (HeaderParsed /\ parse_module = TeamModule) =>
       /\ \A n \in 1..Len(tbody) :
             BecomesRow(tbody[n]) =>
                ((\E k \in 1..Len(row_src) : row_src[k] = n)
                    <=> ~(MJCols # {} /\ ParsesToZero(MJText(tbody[n]))))
       /\ \A k \in 1..Len(row_src) : k > 1 => row_src[k - 1] < row_src[k]
       /\ Len(rows_data) = Len(row_src)

\* A table with an "MJ" column: the row of zeros is dropped, the row of
\* words behind it, whose "MJ" is no number, is kept.
C24_Witness ==
    /\ t_pc = "rows"
    /\ parse_module = TeamModule
    /\ MJCols # {}
    /\ Len(tbody) = 2
    /\ BecomesRow(tbody[1]) /\ MJText(tbody[1]) = "0"
    /\ BecomesRow(tbody[2]) /\ MJText(tbody[2]) = "a"
    /\ row_src = <<2>>
\* ---- C23
\* The hyphen-separated tokens of the report's last path segment.
SegmentTokens ==
    LET parts == SplitOn(RStripSlash(report_url), "/", 1, <<>>)
    IN SplitOn(parts[Len(parts)], "-", 1, <<>>)

\* t is the tokens before the first purely numeric one.
AreNameTokens(t) ==
    /\ Len(t) <= Len(SegmentTokens)
    /\ t = SubSeq(SegmentTokens, 1, Len(t))
    /\ \A i \in 1..Len(t) : ~IsDigits(t[i])
    /\ Len(t) < Len(SegmentTokens) => IsDigits(SegmentTokens[Len(t) + 1])

\* The number of sides of the split at sp whose normalized name is that of the
\* known home, respectively away, name.
SidesRight(t, sp) ==
    Cardinality({side \in {"home", "away"} :
        normalize_team_name(teams_module, SplitAt(t, sp)[side])
           = normalize_team_name(teams_module,
                                 IF side = "home" THEN scorebox_home ELSE scorebox_away)})

\* C23: extract_match_teams takes the hyphen-separated tokens of the last path
\* segment before the first purely numeric token, tries every split point
\* from 1 to len(tokens)-1 and returns the split with the most sides right,
\* the smallest split point among equals; with fewer than two name tokens it
\* returns (None, None).
C23_BestSplitFirstOfHighest ==
    "extract_match_teams" \in called =>
       \E n \in 0..Len(SegmentTokens) :
          LET t == SubSeq(SegmentTokens, 1, n) IN
          /\ AreNameTokens(t)
          /\ IF n < 2 THEN best_split = NoSplit
             ELSE \E sp \in 1..(n - 1) :
                     /\ best_split = SplitAt(t, sp)
                     /\ \A q \in 1..(n - 1) :
                           /\ SidesRight(t, q) <= SidesRight(t, sp)
                           /\ q < sp => SidesRight(t, q) < SidesRight(t, sp)

\* The report Le-Havre-b-Ete-5 for Le Havre against Ete: the splits after
\* Havre and after b have one side right each, and the first is returned.
C23_Witness ==
    /\ "extract_match_teams" \in called
    /\ scorebox_home = LeHavre
    /\ SegmentTokens = << <<"L", "e">>, <<"H", "a", "v", "r", "e">>, <<"b">>,
                          <<"E", "t", "e">>, <<"5">> >>
    /\ best_split.found
    /\ best_split.home = <<"L", "e", "-", "H", "a", "v", "r", "e">>
    /\ best_split.away = <<"b", "-", "E", "t", "e">>
\* ---- C28
\* The number of name tokens of the report.
NameTokenCount ==
    CHOOSE n \in 0..Len(SegmentTokens) : AreNameTokens(SubSeq(SegmentTokens, 1, n))

WindowSize(sel) ==
    CASE sel = "Last 6" -> 6 [] sel = "Last 10" -> 10 [] OTHER -> Len(view_rows)

\* The row is of the side of the Home / Away pill: a match at Le Havre is a
\* home match of the reference team.
OnSide(row, side) ==
    \/ side = "All"
    \/ side = "Home" /\ row.Rapport = ReportAtLeHavre
    \/ side = "Away" /\ row.Rapport = ReportAtEte

\* The rows of the side, in the order of the history (by date, descending).
SideRows == SelectSeq(view_rows, LAMBDA row : OnSide(row, view_selection2))

\* C22: the last-N window is taken on the matches that satisfy the filters:
\* what is aggregated is the N most recent matches by date among those of the
\* chosen side.
C22_WindowAfterFilters ==
    v_pc = "done" =>
       view_matches
          = SubSeq(SideRows, 1,
                   IF Len(SideRows) < WindowSize(view_selection)
                   THEN Len(SideRows) ELSE WindowSize(view_selection))
\* ---- C25
\* The rows after differ from the rows before in the additional_info of rows
\* with a player URL at most.
OnlyInfoSet(before, after) ==
    /\ Len(after) = Len(before)
    /\ \A i \in 1..Len(before) :
          /\ after[i].Joueur = before[i].Joueur
          /\ after[i].JoueurURL = before[i].JoueurURL
          /\ before[i].JoueurURL = "" => after[i] = before[i]

\* C25: the enrichment pass changes the persisted data only by setting the
\* additional_info of rows with a non-empty "Joueur URL"; rows, their order
\* and their other fields stay; the file is read once, at the start, and
\* written once, only after every row was visited.
C25_OnlyAdditionalInfoChanges ==
    [][ /\ file_reads' # file_reads =>
              p_pc = "start" /\ file_reads = 0 /\ pdata' = file /\ file_writes = 0
        /\ p_pc # "start" => OnlyInfoSet(pdata, pdata')
        /\ file_writes' # file_writes =>
              /\ file_writes = 0
              /\ file_reads = 1
              /\ p_i = Len(pdata)
              /\ Len(player_outcomes) = Len(pdata)
              /\ file' = pdata
              /\ OnlyInfoSet(file, file')
        /\ file_writes' = file_writes => file' = file
      ]_vars

\* A pass that ended: the file was written once, the row with a player URL
\* has its info and the row without one is as it was.
C25_Witness ==
    /\ p_pc = "done"
    /\ file_reads = 1
    /\ file_writes = 1
    /\ Len(file) = 2
    /\ file[1].JoueurURL = "" /\ file[1].additional_info = NoInfo
    /\ file[2].JoueurURL # "" /\ file[2].additional_info.kind = "info"
\* ---- C26
\* The site base followed by the row's "Match URL".
MatchPage(match_url) ==
    CASE match_url = MatchUrl1 ->
            "https://fbref.com/fr/matchs/0a1b2c3d/Argentinos-Juniors-Boca-Juniors"
      [] match_url = MatchUrl2 ->
            "https://fbref.com/fr/matchs/4e5f6a7b/Paris-Saint-Germain-Marseille"
      [] OTHER -> "https://fbref.com"

\* C26: for every match-log row with a non-empty "Match URL" the page asked
\* for is the site base followed by that row's Match URL, and the events
\* merged into the dataset come from those pages.
C26_MatchPageOfTheRow ==
    /\ b_pc = "match" => url = MatchPage(data.venues.rows[row_i + 1])
    /\ b_pc \in {"rows", "match"} =>
          aggregated_events \subseteq {MatchPage(data.venues.rows[n]) : n \in 1..row_i}

\* ------------------------------------------------------------------ C27
\* The requests safe_get has issued: one per answer recorded in history.
Requests == Len(history)

\* Positions of history answered successfully.
Successes == {i \in 1..Len(history) : history[i].kind = "ok"}

\* C27: whatever the answers, safe_get issues at most `retries` requests and
\* then ends: 429 answers and failures advance the one loop counter (while it
\* runs, attempt is one more than the requests made and at most retries; once
\* it has ended it has returned or raised), and a successful answer is the
\* last request made.
C27_BoundedRequests ==
    /\ Requests <= retries
    /\ sg_pc = "request" => attempt = Requests + 1 /\ attempt <= retries
    /\ sg_pc # "request" => sg_pc \in {"returned", "raised"} /\ result # Pending
    /\ \A i \in Successes : i = Requests /\ sg_pc = "returned" /\ result = Response

\* A run that mixed a 429 answer and a failure and used every attempt.
C27_Witness ==
    /\ Requests = retries
    /\ retries = MaxRetries
    /\ sg_pc \in {"returned", "raised"}
    /\ \E i \in 1..Requests : history[i].kind = "429"
    /\ \E i \in 1..Requests : history[i].kind = "error"

\* ------------------------------------------------------------------ C29
\* The `for m in matches:` loop has gone over every row.
LoopOver == a_pc \in {"done", "raised"} \/ (a_pc = "loop" /\ a_i > Len(matches))

\* Both halves of the score of row n.
BothHalves(n) ==
    LET pair == parse_score(matches[n].Score) IN pair.home + pair.away

\* C29: after the accumulation loop, home wins + draws + away wins is the
\* number of rows whose score parsed, the over-2.5 count and the BTTS count
\* are each at most the over-1.5 count, and home goals + away goals is the sum
\* of both score halves over the parsed rows.
C29_TallyConsistent ==
    LoopOver =>
       /\ home_win + draw + away_win = Parsed
       /\ over25 <= over15
       /\ btts <= over15
       /\ home_goal + away_goal = SumOf(BothHalves, ParsedRows)

\* print_h2h.py after the loop over two parsed rows, one of them turned, with
\* over-1.5 rows that are not all over 2.5 and not all BTTS.
C29_Witness ==
    /\ a_pc = "done"
    /\ agg_module = PrintH2H
    /\ Parsed = MaxMatches
    /\ \E n \in ParsedRows : ~ReferenceAtHome(n)
    /\ over25 < over15
    /\ btts < over15
    /\ home_goal + away_goal > 0

\* ------------------------------------------------------------------ C30
\* The number of the named streaks that are not 0.
NonZero(names) == Cardinality({x \in names : streaks[x] > 0})

\* C30: over a window of V, N, D results the streaks computed from the same
\* window satisfy: at most one of consecutive wins, draws and defeats is not
\* 0; "consecutive wins or draw" is "no defeat" and "consecutive defeats or
\* draw" is "no win"; consecutive wins is at most "no defeat"; with the goals
\* scored present, exactly one of "1 goal scored or more" and "no goal scored"
\* is not 0; and a streak is shown only when it is above 1.
C30_StreakRelations ==
    k_pc = "done" =>
       /\ NonZero({"Consecutive wins", "Consecutive draws", "Consecutive defeats"}) <= 1
       /\ streaks["Consecutive wins or draw"] = streaks["No defeat"]
       /\ streaks["Consecutive defeats or draw"] = streaks["No win"]
       /\ streaks["Consecutive wins"] <= streaks["No defeat"]
       /\ "BM" \in columns =>
             NonZero({"1 goal scored or more", "No goal scored"}) = 1
       /\ \A x \in streaks_data : streaks[x] > 1

\* Two wins in a row are shown, and a streak of one match is not.
C30_Witness ==
    /\ k_pc = "done"
    /\ columns = {"Resultat", "BM", "BE"}
    /\ streaks["Consecutive wins"] = 2
    /\ "Consecutive wins" \in streaks_data
    /\ streaks["1 goal scored or more"] = 1
    /\ "1 goal scored or more" \notin streaks_data
    /\ streaks["No goal scored"] = 0
    /\ streaks["No defeat"] = 2

====
